---- MODULE Spec2Model ----
(***************************************************************************)
(* A model of six parts of BEE2.4:                                         *)
(*   - utils.fit, the stretch-fit packing of a distance into parts;        *)
(*   - utils.AtomicWriter, the write-to-temporary-then-rename writer;      *)
(*   - conditions/resizableTrigger.py, the ResizeableTrigger result;       *)
(*   - voiceLine.py, the add_voice pass that places voice-line entities;   *)
(*   - voiceLine.add_quote, one property of a quote line at a time, with   *)
(*     the outputs of the entities it creates;                             *)
(*   - functions, flags and results that run in one step: the ranking of   *)
(*     quote blocks, the flags and results of conditions/positioning.py,   *)
(*     and the conversions, tables and vector operators of utils.          *)
(* Each part has its own variables, its own initial predicate and its own  *)
(* next-state relation; the variables of the parts a specification does    *)
(* not exercise stay at their idle values.                                 *)
(***************************************************************************)
EXTENDS Integers, Sequences, FiniteSets, TLC

(***************************************************************************)
(* Bounds of the model.                                                    *)
(***************************************************************************)
\* fit: the largest whole target distance, the largest part, the longest list
MaxDist == 6
MaxPart == 3
MaxParts == 3
\* AtomicWriter: temporary file names, chunks written by one body, scopes
\* entered in one run
MaxTemps == 2
MaxWrite == 2
MaxEnters == 2
\* ResizeableTrigger: marker instances in the map
MaxMarkers == 2
\* Voice lines: normal groups of the config, lines of the midchamber group,
\* add_voice passes in one process
MaxGroups == 2
MaxMidLines == 1
MaxPasses == 2
\* Voice lines: events of the QuoteEvents block of the config
MaxEvents == 1
\* Ranking: candidate quote blocks of one group
MaxQuotes == 3
\* Positioning flags: the most quarter turns in an axis of an instance angle
MaxTurns == 3
\* Positioning flags: brushes in the solid registry, cells in the goo registry
MaxSolids == 1
MaxGoo == 1
\* parse_str: the most tokens of a text
MaxTokens == 4
\* get_indent: the most characters of a line
MaxLine == 4
\* add_quote: the most properties of a quote line
MaxProps == 3
\* Vec += / -=: the most items of a tuple operand
MaxItems == 3

VARIABLES
    \* ---- utils.fit ----
    fit_pc,      \* position in fit(): "call", "loop", "done", "raised"
    arg_dist,    \* the dist argument, counted in halves (it may be a float)
    obj,         \* the obj argument, the list of part sizes
    dist,        \* local dist (after int())
    orig_dist,   \* local orig_dist
    smallest,    \* local smallest
    items,       \* local items, the deque, left to right
    adder,       \* where the append_bothsides generator is suspended
    item,        \* the loop variable item (0 before the first selection)
    fit_ret,     \* the returned list
    \* ---- utils.AtomicWriter ----
    aw_target,   \* the file at self.filename: [exists, data]
    aw_dir,      \* the temporary files of self.dir: name -> [exists, data]
    aw_temp,     \* self.temp: 0 for None, else the name of the open file
    aw_scopes,   \* the `with` scopes now open, outermost first
    aw_enters,   \* how many scopes have been entered
    aw_last,     \* what the __exit__ that has just run did
    \* ---- conditions/resizableTrigger.py ----
    rt_pc,       \* position in res_resizeable_trigger: "call", "loop", ...
    rt_res,      \* the options of the result and of the compile
    rt_list,     \* the marker instances of the map, in the map's order
    markers,     \* the keys still in the dict `markers`
    rt_idx,      \* index in list(markers.items()) of the next iteration
    inst,        \* loop variable inst (a marker name, "" before the loop)
    other,       \* local other
    rt_removed,  \* marker name -> number of remove() calls on it
    rt_trigs,    \* the (inst, other) of every trigger created, in order
    trig_ent,    \* the trigger_multiple created last: <<>> or <<entity>>
    \* ---- voiceLine.py ----
    vl_pc,            \* position in add_voice: "idle", "groups", "mid", "done"
    vl_passes,        \* how many times add_voice has been called
    ADDED_BULLSEYES,  \* module global ADDED_BULLSEYES
    ALLOW_MID_VOICES, \* module global ALLOW_MID_VOICES
    VMF,              \* module global VMF: the entities of the map document
    GAME_MODE,        \* vbsp.GAME_MODE
    QUOTE_DATA,       \* module global QUOTE_DATA, the voice config
    QUOTE_EVENTS,     \* module global QUOTE_EVENTS, as its (id, file) items
    vl_groups,        \* the groups the loop over the groups has yet to visit
    mid_quotes,       \* local mid_quotes
    vl_requested,     \* the bullseye names the lines added in this pass ask for
    \* ---- voiceLine.add_quote, one property of the line at a time ----
    aq_pc,            \* "idle", "loop" (the for loop over the line), "done"
    aq_quote,         \* argument quote: the properties of the line
    aq_idx,           \* the position of the loop in the line
    aq_use_dings,     \* argument use_dings
    aq_targetname,    \* argument / local targetname
    aq_bullseyes,     \* module global ADDED_BULLSEYES during the call
    aq_ents,          \* the entities the call has created in the map
    only_once,        \* local only_once
    cc_emit_name,     \* local cc_emit_name ("" for None)
    added_ents,       \* local added_ents, as positions in aq_ents
    end_commands,     \* local end_commands
    \* ---- functions and flags that run in one step ----
    fn_call,          \* the call: the function's name and its arguments
    fn_ret            \* its outcome: Pending until it has run

fitVars == <<fit_pc, arg_dist, obj, dist, orig_dist, smallest, items, adder,
             item, fit_ret>>

awVars == <<aw_target, aw_dir, aw_temp, aw_scopes, aw_enters, aw_last>>

rtVars == <<rt_pc, rt_res, rt_list, markers, rt_idx, inst, other, rt_removed,
            rt_trigs, trig_ent>>

vlVars == <<vl_pc, vl_passes, ADDED_BULLSEYES, ALLOW_MID_VOICES, VMF,
            GAME_MODE, QUOTE_DATA, QUOTE_EVENTS, vl_groups, mid_quotes,
            vl_requested>>

aqVars == <<aq_pc, aq_quote, aq_idx, aq_use_dings, aq_targetname,
            aq_bullseyes, aq_ents, only_once, cc_emit_name, added_ents,
            end_commands>>

fnVars == <<fn_call, fn_ret>>

vars == <<fitVars, awVars, rtVars, vlVars, aqVars, fnVars>>

(***************************************************************************)
(* Helpers on sequences.                                                   *)
(***************************************************************************)
RECURSIVE SumSeq(_)
SumSeq(s) == IF s = <<>> THEN 0 ELSE Head(s) + SumSeq(Tail(s))

Range(s) == {s[i] : i \in 1..Len(s)}

SetMax(S) == CHOOSE x \in S : \A y \in S : y <= x

SeqsUpTo(S, n) == UNION {[1..k -> S] : k \in 0..n}

IsAscending(s) == \A i \in 1..(Len(s) - 1) : s[i] <= s[i + 1]

IsDescending(s) == \A i \in 1..(Len(s) - 1) : s[i] >= s[i + 1]

(***************************************************************************)
(* The idle value of each part, and what a step of one part leaves alone.  *)
(***************************************************************************)
FitIdle ==
    /\ fit_pc = "idle"
    /\ arg_dist = 0
    /\ obj = <<>>
    /\ dist = 0
    /\ orig_dist = 0
    /\ smallest = 0
    /\ items = <<>>
    /\ adder = "append"
    /\ item = 0
    /\ fit_ret = <<>>

\* A file: whether it exists and, if so, the chunks it holds.
Absent == [exists |-> FALSE, data |-> <<>>]
File(d) == [exists |-> TRUE, data |-> d]

TempNames == 1..MaxTemps

NoExit == [kind |-> "none", raised |-> "none", snap |-> Absent, wrote |-> <<>>,
           reentered |-> FALSE]

AwIdle ==
    /\ aw_target = Absent
    /\ aw_dir = [n \in TempNames |-> Absent]
    /\ aw_temp = 0
    /\ aw_scopes = <<>>
    /\ aw_enters = 0
    /\ aw_last = NoExit

\* The names a marker instance can have, in the order the map lists them.
MarkerNames == <<"mark_a", "mark_b", "mark_c", "mark_d">>

RtIdle ==
    /\ rt_pc = "idle"
    /\ rt_res = [triggerActivate |-> "", triggerDeactivate |-> "",
                 preview |-> FALSE]
    /\ rt_list = <<>>
    /\ markers = {}
    /\ rt_idx = 0
    /\ inst = ""
    /\ other = ""
    /\ rt_removed = [n \in {} |-> 0]
    /\ rt_trigs = <<>>
    /\ trig_ent = <<>>

NoQuoteData == [UseMicrophones |-> "", groups |-> <<>>, events |-> <<>>]

VlIdle ==
    /\ vl_pc = "idle"
    /\ vl_passes = 0
    /\ ADDED_BULLSEYES = {}
    /\ ALLOW_MID_VOICES = FALSE
    /\ VMF = <<>>
    /\ GAME_MODE = "SP"
    /\ QUOTE_DATA = NoQuoteData
    /\ QUOTE_EVENTS = <<>>
    /\ vl_groups = <<>>
    /\ mid_quotes = <<>>
    /\ vl_requested = {}

AqIdle ==
    /\ aq_pc = "idle"
    /\ aq_quote = <<>>
    /\ aq_idx = 0
    /\ aq_use_dings = FALSE
    /\ aq_targetname = ""
    /\ aq_bullseyes = {}
    /\ aq_ents = <<>>
    /\ only_once = FALSE
    /\ cc_emit_name = ""
    /\ added_ents = <<>>
    /\ end_commands = <<>>

NoCall == [fn |-> ""]
Pending == [raised |-> "pending"]

FnIdle ==
    /\ fn_call = NoCall
    /\ fn_ret = Pending

FitOthersIdle == AwIdle /\ RtIdle /\ VlIdle /\ FnIdle /\ AqIdle
FitOthersUnchanged == UNCHANGED <<awVars, rtVars, vlVars, fnVars, aqVars>>

AwOthersIdle == FitIdle /\ RtIdle /\ VlIdle /\ FnIdle /\ AqIdle
AwOthersUnchanged == UNCHANGED <<fitVars, rtVars, vlVars, fnVars, aqVars>>

RtOthersIdle == FitIdle /\ AwIdle /\ VlIdle /\ FnIdle /\ AqIdle
RtOthersUnchanged == UNCHANGED <<fitVars, awVars, vlVars, fnVars, aqVars>>

VlOthersIdle == FitIdle /\ AwIdle /\ RtIdle /\ FnIdle /\ AqIdle
VlOthersUnchanged == UNCHANGED <<fitVars, awVars, rtVars, fnVars, aqVars>>

FnOthersIdle == FitIdle /\ AwIdle /\ RtIdle /\ VlIdle /\ AqIdle
FnOthersUnchanged == UNCHANGED <<fitVars, awVars, rtVars, vlVars, aqVars>>

AqOthersIdle == FitIdle /\ AwIdle /\ RtIdle /\ VlIdle /\ FnIdle
AqOthersUnchanged == UNCHANGED <<fitVars, awVars, rtVars, vlVars, fnVars>>

(***************************************************************************)
(* utils.fit                                                               *)
(***************************************************************************)
\* int(dist) for a dist given in halves: truncation towards zero.
int(h) == IF h >= 0 THEN h \div 2 ELSE -((-h) \div 2)

\* A generator that loses every value sent to the left side.
append_bothsides_lossy(deq, side, v) ==
    IF side = "append"
    THEN <<Append(deq, v), "appendleft">>
    ELSE <<deq, "append">>

\* One send() to the append_bothsides generator suspended at `side`: the
\* value goes to that side of the deque and the generator moves on to the
\* other yield.
append_bothsides(deq, side, v) ==
    IF side = "append"
    THEN <<Append(deq, v), "appendleft">>
    ELSE <<<<v>> \o deq, "append">>

\* The last item of the list that fits.
LastFit(o, d) ==
    IF \E i \in 1..Len(o) : o[i] <= d
    THEN CHOOSE i \in 1..Len(o) : o[i] <= d /\ \A j \in (i + 1)..Len(o) : o[j] > d
    ELSE 0

\* A for loop that gives up after the first item of the list.
FirstFit_first_only(o, d) == IF o[1] <= d THEN 1 ELSE 0

\* `for item in obj: if item <= dist: ... break`: the index of the first item
\* of the list, in the order given, that fits; 0 when the loop falls through.
FirstFit(o, d) ==
    IF \E i \in 1..Len(o) : o[i] <= d
    THEN CHOOSE i \in 1..Len(o) : o[i] <= d /\ \A j \in 1..(i - 1) : o[j] > d
    ELSE 0

\* The inputs of a call: a distance in halves, a non-empty list of positive
\* part sizes in any order.
FitDists == (-2)..(2 * MaxDist + 1)
FitLists == SeqsUpTo(1..MaxPart, MaxParts) \ {<<>>}

FitInit ==
    /\ fit_pc = "call"
    /\ arg_dist \in FitDists
    /\ obj \in FitLists
    /\ dist = 0
    /\ orig_dist = 0
    /\ smallest = 0
    /\ items = <<>>
    /\ adder = "append"
    /\ item = 0
    /\ fit_ret = <<>>
    /\ FitOthersIdle

\* dist = int(dist); the early return; the set-up of the loop.
FitEnter ==
    /\ fit_pc = "call"
    /\ dist' = int(arg_dist)
    /\ IF int(arg_dist) <= 0
       THEN /\ fit_pc' = "done"
            /\ UNCHANGED <<orig_dist, smallest>>
       ELSE /\ fit_pc' = "loop"
            /\ orig_dist' = int(arg_dist)
            /\ smallest' = obj[Len(obj)]
    /\ UNCHANGED <<arg_dist, obj, items, adder, item, fit_ret>>
    /\ FitOthersUnchanged

\* One iteration of `while dist >= smallest` in which the for loop breaks.
FitSelect ==
    /\ fit_pc = "loop"
    /\ dist >= smallest
    /\ FirstFit(obj, dist) # 0
    /\ LET i == FirstFit(obj, dist)
           sent == append_bothsides(items, adder, obj[i])
       IN /\ item' = obj[i]
          /\ items' = sent[1]
          /\ adder' = sent[2]
          /\ dist' = dist - obj[i]
    /\ UNCHANGED <<fit_pc, arg_dist, obj, orig_dist, smallest, fit_ret>>
    /\ FitOthersUnchanged

\* The loop has ended: the remainder is sent, the sum asserted, the deque
\* returned as a list.
FitFinish ==
    /\ fit_pc = "loop"
    /\ dist < smallest
    /\ LET sent == IF dist > 0
                   THEN append_bothsides(items, adder, dist)
                   ELSE <<items, adder>>
       IN /\ items' = sent[1]
          /\ adder' = sent[2]
          /\ IF SumSeq(sent[1]) = orig_dist
             THEN fit_pc' = "done" /\ fit_ret' = sent[1]
             ELSE fit_pc' = "raised" /\ fit_ret' = fit_ret
    /\ UNCHANGED <<arg_dist, obj, dist, orig_dist, smallest, item>>
    /\ FitOthersUnchanged

FitNext ==
    \/ FitEnter
    \/ FitSelect
    \/ FitFinish

SpecFit == FitInit /\ [][FitNext]_vars

\* C1: for every target whose truncation is positive and every non-empty
\* ascending list of positive part sizes, fit returns (its assertion does not
\* fail) a sequence that sums exactly to int(dist); for every target with
\* int(dist) <= 0 it returns the empty sequence.
FitSumsToTarget ==
    /\ (fit_pc = "raised" => ~IsAscending(obj))
    /\ (fit_pc = "done" /\ IsAscending(obj)) =>
          IF int(arg_dist) > 0
          THEN SumSeq(fit_ret) = int(arg_dist)
          ELSE fit_ret = <<>>

\* C1 witness: a call with an ascending list of two different sizes has
\* returned three or more parts, one of them a remainder below every part.
FitSumsWitness ==
    /\ fit_pc = "done"
    /\ IsAscending(obj)
    /\ Len(obj) >= 2
    /\ obj[1] < obj[Len(obj)]
    /\ Len(fit_ret) >= 3
    /\ \E k \in 1..Len(fit_ret) : \A x \in Range(obj) : fit_ret[k] < x

\* C2 as stated: the part selected by an iteration is the largest element of
\* obj that is <= the distance that remained before it, whatever the order
\* of obj.
FitPicksLargest ==
    (fit_pc \in {"loop", "done"} /\ item # 0) =>
        item = SetMax({x \in Range(obj) : x <= dist + item})

\* C2 amended: the part selected by an iteration is the first element of
\* obj, in the order given, that is <= the distance that remained before it;
\* it is the largest such element when obj is in descending order.
FitPicksFirstInOrder ==
    (fit_pc \in {"loop", "done"} /\ item # 0) =>
        /\ \E i \in 1..Len(obj) :
              /\ obj[i] = item
              /\ obj[i] <= dist + item
              /\ \A j \in 1..(i - 1) : obj[j] > dist + item
        /\ IsDescending(obj) =>
              item = SetMax({x \in Range(obj) : x <= dist + item})

\* C2 witness: an iteration has selected a part although a larger part of the
\* list also fitted.
FitPicksWitness ==
    /\ fit_pc \in {"loop", "done"}
    /\ item # 0
    /\ \E x \in Range(obj) : x > item /\ x <= dist + item

(***************************************************************************)
(* utils.AtomicWriter                                                      *)
(***************************************************************************)
Chunks == {"a", "b"}

\* os.remove(path), a missing file tolerated.
Removed_nothing(dir, path) == dir
Removed(dir, path) == [dir EXCEPT ![path] = Absent]

\* An __exit__ that commits whether or not the body raised.
ExitOutcome_always_commits(exc, tgt, dir, path) ==
    [target |-> dir[path], dir |-> Removed(dir, path),
     raised |-> IF exc THEN "body" ELSE "none"]

\* An __exit__ that copies the temporary file to the target and leaves it.
ExitOutcome_copies(exc, tgt, dir, path) ==
    IF exc
    THEN [target |-> tgt, dir |-> Removed(dir, path), raised |-> "body"]
    ELSE [target |-> dir[path], dir |-> dir, raised |-> "none"]

\* __exit__ once the temporary file is closed and self.temp is None. With an
\* exception the temporary file is removed (FileNotFoundError swallowed) and
\* `return False` lets the body's exception propagate; without one
\* os.replace renames the temporary file over the target, and raises
\* FileNotFoundError when the temporary file is gone.
ExitOutcome(exc, tgt, dir, path) ==
    IF exc
    THEN [target |-> tgt, dir |-> Removed(dir, path), raised |-> "body"]
    ELSE IF dir[path].exists
         THEN [target |-> dir[path], dir |-> Removed(dir, path),
               raised |-> "none"]
         ELSE [target |-> tgt, dir |-> dir, raised |-> "FileNotFoundError"]

\* AtomicWriter(filename): self.temp is None; the target may or may not
\* exist already.
AwInit ==
    /\ aw_target \in {Absent} \cup {File(d) : d \in SeqsUpTo(Chunks, 1)}
    /\ aw_dir = [n \in TempNames |-> Absent]
    /\ aw_temp = 0
    /\ aw_scopes = <<>>
    /\ aw_enters = 0
    /\ aw_last = NoExit
    /\ AwOthersIdle

\* __enter__: make_tempfile() closes and removes the temporary file that is
\* still open, then NamedTemporaryFile creates an empty file under a name
\* that does not exist in the directory. The scope records the handle it was
\* given and what the target held when it was entered.
AwEnter ==
    /\ aw_enters < MaxEnters
    /\ LET cleared == IF aw_temp # 0 THEN Removed(aw_dir, aw_temp) ELSE aw_dir
       IN \E n \in TempNames :
            /\ ~cleared[n].exists
            /\ aw_dir' = [cleared EXCEPT ![n] = File(<<>>)]
            /\ aw_temp' = n
            /\ aw_scopes' =
                 Append([i \in 1..Len(aw_scopes) |->
                           [aw_scopes[i] EXCEPT !.reentered = TRUE]],
                        [handle |-> n, open |-> TRUE, snap |-> aw_target,
                         wrote |-> <<>>, reentered |-> FALSE])
    /\ aw_enters' = aw_enters + 1
    /\ aw_last' = NoExit
    /\ UNCHANGED aw_target
    /\ AwOthersUnchanged

\* The body of the innermost scope writes one chunk to the file object it was
\* given, which is still self.temp (a scope whose file a later __enter__
\* closed cannot write: the write raises, see AwExit(TRUE)).
AwWrite ==
    /\ aw_scopes # <<>>
    /\ LET k == Len(aw_scopes)
           top == aw_scopes[k]
       IN /\ ~top.reentered
          /\ aw_temp = top.handle
          /\ Len(top.wrote) < MaxWrite
          /\ \E c \in Chunks :
               /\ aw_dir' = [aw_dir EXCEPT
                               ![top.handle] = File(Append(@.data, c))]
               /\ aw_scopes' = [aw_scopes EXCEPT
                               ![k].wrote = Append(@, c)]
    /\ aw_last' = NoExit
    /\ UNCHANGED <<aw_target, aw_temp, aw_enters>>
    /\ AwOthersUnchanged

\* __exit__ of the innermost scope, the body having raised (exc) or not.
\* `self.temp.name` raises AttributeError when self.temp is None, which a
\* nested scope's __exit__ has left behind.
AwExit(exc) ==
    /\ aw_scopes # <<>>
    /\ LET k == Len(aw_scopes)
           top == aw_scopes[k]
           kind == IF exc THEN "error" ELSE "clean"
       IN /\ aw_scopes' = SubSeq(aw_scopes, 1, k - 1)
          /\ IF aw_temp = 0
             THEN /\ aw_last' = [kind |-> kind, raised |-> "AttributeError",
                                 snap |-> top.snap, wrote |-> top.wrote,
                                 reentered |-> top.reentered]
                  /\ UNCHANGED <<aw_target, aw_dir, aw_temp>>
             ELSE LET out == ExitOutcome(exc, aw_target, aw_dir, aw_temp)
                  IN /\ aw_temp' = 0
                     /\ aw_target' = out.target
                     /\ aw_dir' = out.dir
                     /\ aw_last' = [kind |-> kind, raised |-> out.raised,
                                    snap |-> top.snap, wrote |-> top.wrote,
                                    reentered |-> top.reentered]
    /\ UNCHANGED aw_enters
    /\ AwOthersUnchanged

AwExitClean == AwExit(FALSE)

AwExitError == AwExit(TRUE)

AwNext ==
    \/ AwEnter
    \/ AwWrite
    \/ AwExitClean
    \/ AwExitError

SpecAw == AwInit /\ [][AwNext]_vars

NoTempFiles == \A n \in TempNames : ~aw_dir[n].exists

\* C3: when the body of a writer scope (one that was not entered again while
\* open) has raised, then after __exit__ the target holds exactly what it
\* held when the scope was entered (the same content, or still absent), no
\* temporary file remains in the directory, and the body's error propagates.
AwErrorLeavesTarget ==
    (aw_last.kind = "error" /\ ~aw_last.reentered) =>
        /\ aw_target = aw_last.snap
        /\ NoTempFiles
        /\ aw_last.raised = "body"

\* C3 witness: a scope entered over an existing target has written to its
\* temporary file, its body has raised and __exit__ has run.
AwErrorWitness ==
    /\ aw_last.kind = "error"
    /\ ~aw_last.reentered
    /\ aw_last.snap.exists
    /\ aw_last.wrote # <<>>
    /\ aw_last.wrote # aw_last.snap.data

\* C4: when the body of a writer scope (one that was not entered again while
\* open) has completed without error, then after __exit__ the target holds
\* exactly what the body wrote to the temporary file, no temporary file
\* remains and nothing is raised; and while such a scope is open the target
\* still holds what it held when the scope was entered.
AwCleanCommits ==
    /\ (aw_last.kind = "clean" /\ ~aw_last.reentered) =>
          /\ aw_target = File(aw_last.wrote)
          /\ NoTempFiles
          /\ aw_last.raised = "none"
    /\ (aw_scopes # <<>> /\ ~aw_scopes[Len(aw_scopes)].reentered) =>
          aw_target = aw_scopes[Len(aw_scopes)].snap

\* C4 witness: a scope entered over an existing target has written two chunks
\* that differ from the old content, and has exited cleanly.
AwCleanWitness ==
    /\ aw_last.kind = "clean"
    /\ ~aw_last.reentered
    /\ aw_last.snap.exists
    /\ Len(aw_last.wrote) >= 2
    /\ aw_last.snap.data # <<>>

(***************************************************************************)
(* conditions/resizableTrigger.py: the ResizeableTrigger result            *)
(***************************************************************************)
\* float(text) for the number texts that occur in the origins of the model.
NumText == {"-192", "-128", "-64", "-1", "0", "1", "2", "64", "90", "100",
            "128", "180", "256", "270", "360", "450",
            "0.0", "90.0", "180.0", "270.0"}
float(t) ==
    CASE t = "-192" -> -192
      [] t = "-128" -> -128
      [] t = "-64" -> -64
      [] t = "-1" -> -1
      [] t = "0" -> 0
      [] t = "1" -> 1
      [] t = "2" -> 2
      [] t = "64" -> 64
      [] t = "90" -> 90
      [] t = "100" -> 100
      [] t = "128" -> 128
      [] t = "180" -> 180
      [] t = "256" -> 256
      [] t = "270" -> 270
      [] t = "360" -> 360
      [] t = "450" -> 450
      [] t = "0.0" -> 0
      [] t = "90.0" -> 90
      [] t = "180.0" -> 180
      [] t = "270.0" -> 270

\* str_x[1:] when str_x starts with one of ({[< and str_z[:-1] when str_z
\* ends with one of )}]>, for the tokens of the model.
strip_open(tok) ==
    CASE tok = "(1" -> "1"
      [] tok = "[0" -> "0"
      [] tok = "(" -> ""
      [] OTHER -> tok
strip_close(tok) ==
    CASE tok = "2)" -> "2"
      [] tok = "0]" -> "0"
      [] tok = ")" -> ""
      [] OTHER -> tok

\* parse_str raises for a text of three tokens whose first or last token is
\* empty (a text such as ' 1 2' or '1 2 '): str_x[0] or str_z[-1] is an
\* IndexError, outside both try blocks.
parse_str_raises(val) ==
    Len(val) = 3 /\ (val[1] = "" \/ val[3] = "")

\* parse_str(val, x, y, z) for a text given as the tokens of val.split(' '):
\* the defaults unless there are three tokens and, with a bracket stripped
\* from the first and the last, each is a number.
parse_str(val, x, y, z) ==
    IF Len(val) # 3 THEN <<x, y, z>>
    ELSE LET str_x == strip_open(val[1])
             str_y == val[2]
             str_z == strip_close(val[3])
         IN IF {str_x, str_y, str_z} \subseteq NumText
            THEN <<float(str_x), float(str_y), float(str_z)>>
            ELSE <<x, y, z>>

\* Vec.from_str(val): the vector of parse_str with the defaults 0, 0, 0.
Vec_from_str(val) == parse_str(val, 0, 0, 0)

\* A Vec.min that only lowers the x axis.
Vec_min_x_only(self, o) ==
    <<IF self[1] > o[1] THEN o[1] ELSE self[1], self[2], self[3]>>

\* Vec.min(other): each axis of self lowered to the other's when above it.
Vec_min(self, o) ==
    <<IF self[1] > o[1] THEN o[1] ELSE self[1],
      IF self[2] > o[2] THEN o[2] ELSE self[2],
      IF self[3] > o[3] THEN o[3] ELSE self[3]>>

\* Vec.max(other): each axis of self raised to the other's when below it.
Vec_max(self, o) ==
    <<IF self[1] < o[1] THEN o[1] ELSE self[1],
      IF self[2] < o[2] THEN o[2] ELSE self[2],
      IF self[3] < o[3] THEN o[3] ELSE self[3]>>

\* Vec.bbox(first, point): both corners start as copies of the first point.
Vec_bbox(first, point) == <<Vec_min(first, point), Vec_max(first, point)>>

\* `v -= k` and `v += k` for a number k: every axis is changed.
Vec_isub(v, k) == <<v[1] - k, v[2] - k, v[3] - k>>
Vec_iadd(v, k) == <<v[1] + k, v[2] + k, v[3] + k>>

\* How far the box is extended past the marker origins, to the block edges.
BlockEdge == 64

\* VMF.make_prism(p1, p2, mat).solid: one brush between two corners.
make_prism(p1, p2, mat) == [min |-> p1, max |-> p2, mat |-> mat]

\* The registered pins of the marker item: CONNECTIONS[...].out_act and
\* .out_deact, each an (instance name, output) pair.
mark_act == [name |-> "instance:marker_rl", out |-> "OnTrue"]
mark_deact == [name |-> "instance:marker_rl", out |-> "OnFalse"]

\* An output of an entity.
Output(inst_out, output, target, inst_in, inp, param, delay, times) ==
    [inst_out |-> inst_out, output |-> output, target |-> target,
     inst_in |-> inst_in, input |-> inp, params |-> param, delay |-> delay,
     times |-> times]

\* The outputs a marker can carry besides its link: none; an activate output
\* and one whose instance name is not the registered one; a deactivate
\* output and one whose output name is not a registered one.
ExtOutputs ==
    {<<>>,
     <<Output(mark_act.name, mark_act.out, "door", "instance:door_rl",
              "Trigger", "", 0, -1),
       Output("instance:other_rl", mark_act.out, "door", "instance:door_rl",
              "Trigger", "", 0, -1)>>,
     <<Output(mark_deact.name, mark_deact.out, "door", "instance:door_rl",
              "Untrigger", "1", 1, 1),
       Output(mark_act.name, "OnOther", "door", "instance:door_rl",
              "Untrigger", "1", 1, 1)>>}

\* The links of n markers: for each marker, the marker its connection goes
\* to, or 0 for a marker with no output to a marker.
LinkMaps(n) == {f \in [1..n -> 0..n] : \A i \in 1..n : f[i] # i}

\* The outputs of a link: none, or the activate output of a connection to
\* marker j.
LinkOutputs(j) ==
    IF j = 0 THEN <<>>
    ELSE <<Output(mark_act.name, mark_act.out, MarkerNames[j],
                  "instance:marker_rl", "Activate", "", 0, -1)>>

Origins == {<<"0", "256", "-128">>, <<"128", "0", "-128">>}

\* Marker instance i under the links f: its name, its origin text, its
\* outputs and its $connectioncount fixup. The editor counts the connections
\* into an item, so a marker that another marker's output points to has a
\* count other than '0'.
MarkerChoices(i, f) ==
    {[targetname |-> MarkerNames[i], origin |-> o,
      outputs |-> LinkOutputs(f[i]) \o e, connectioncount |-> c] :
        o \in Origins, e \in ExtOutputs,
        c \in IF \E j \in DOMAIN f : f[j] = i THEN {"1"} ELSE {"0", "1"}}

\* The first k marker instances of a map, in the map's order, under the
\* links f.
RECURSIVE MarkerLists(_, _)
MarkerLists(k, f) ==
    IF k = 0 THEN {<<>>}
    ELSE {Append(l, m) : l \in MarkerLists(k - 1, f), m \in MarkerChoices(k, f)}

\* The options: the trigger's output names (a default unless configured, ""
\* to drop the output) and whether the preview instance with both of its
\* inputs is configured and shown.
ResOptions ==
    [triggerActivate : {"OnStartTouchAll", ""},
     triggerDeactivate : {"OnEndTouchAll", ""},
     preview : BOOLEAN]

\* The marker instance of a name.
Marker(name) == CHOOSE m \in Range(rt_list) : m.targetname = name

\* Entity.output_targets(): the names the entity's outputs point to.
output_targets(ent) == {ent.outputs[k].target : k \in 1..Len(ent.outputs)}

\* The outputs that run the preview instance, added to the trigger first.
PreviewOutputs(targ, res) ==
    IF res.preview
    THEN <<Output("", res.triggerActivate, targ \o "_preview",
                  "instance:preview_rl", "Skin1", "", 0, -1),
           Output("", res.triggerDeactivate, targ \o "_preview",
                  "instance:preview_rl", "Skin0", "", 0, -1)>>
    ELSE <<>>

\* A copy that forgets the check for an empty trigger output name.
RECURSIVE CopyOutputs_keeps_empty(_, _, _)
CopyOutputs_keeps_empty(outs, other_name, res) ==
    IF outs = <<>> THEN <<>>
    ELSE LET out == Head(outs)
             rest == CopyOutputs_keeps_empty(Tail(outs), other_name, res)
         IN IF out.target = other_name THEN rest
            ELSE IF out.inst_out = mark_act.name /\ out.output = mark_act.out
            THEN <<Output("", res.triggerActivate, out.target, out.inst_in,
                          out.input, out.params, out.delay, out.times)>>
                 \o rest
            ELSE IF out.inst_out = mark_deact.name
                    /\ out.output = mark_deact.out
            THEN <<Output("", res.triggerDeactivate, out.target, out.inst_in,
                          out.input, out.params, out.delay, out.times)>>
                 \o rest
            ELSE rest

\* `for out in inst.outputs + other.outputs`: the outputs appended to the
\* trigger, in order. An output to `other` is skipped; an output on the
\* activate pin gets trig_act, one on the deactivate pin trig_deact, any
\* other is skipped; so is one whose trigger output name is "".
RECURSIVE CopyOutputs(_, _, _)
CopyOutputs(outs, other_name, res) ==
    IF outs = <<>> THEN <<>>
    ELSE LET out == Head(outs)
             rest == CopyOutputs(Tail(outs), other_name, res)
             trig_out ==
                 IF out.inst_out = mark_act.name /\ out.output = mark_act.out
                 THEN res.triggerActivate
                 ELSE res.triggerDeactivate
         IN IF out.target = other_name THEN rest
            ELSE IF ~(\/ out.inst_out = mark_act.name
                         /\ out.output = mark_act.out
                      \/ out.inst_out = mark_deact.name
                         /\ out.output = mark_deact.out)
            THEN rest
            ELSE IF trig_out = "" THEN rest
            ELSE <<Output("", trig_out, out.target, out.inst_in, out.input,
                          out.params, out.delay, out.times)>> \o rest

\* The trigger_multiple made for the pair (i, o): named after i, at i's
\* origin, with one prism over the box of both origins extended by 64 units,
\* and with the preview outputs followed by the copied outputs.
MakeTrigger(i, o, res) ==
    LET bbox == Vec_bbox(Vec_from_str(i.origin), Vec_from_str(o.origin))
        bbox_min == Vec_isub(bbox[1], BlockEdge)
        bbox_max == Vec_iadd(bbox[2], BlockEdge)
    IN [classname |-> "trigger_multiple",
        targetname |-> i.targetname,
        origin |-> i.origin,
        angles |-> <<"0", "0", "0">>,
        solids |-> <<make_prism(bbox_min, bbox_max, "tools/toolstrigger")>>,
        outputs |-> PreviewOutputs(i.targetname, res)
                    \o CopyOutputs(i.outputs \o o.outputs, o.targetname, res)]

RtInit ==
    /\ rt_pc = "call"
    /\ \E n \in 0..MaxMarkers : \E f \in LinkMaps(n) :
          rt_list \in MarkerLists(n, f)
    /\ rt_res \in ResOptions
    /\ markers = {}
    /\ rt_idx = 0
    /\ inst = ""
    /\ other = ""
    /\ rt_removed = [n \in {} |-> 0]
    /\ rt_trigs = <<>>
    /\ trig_ent = <<>>
    /\ RtOthersIdle

\* `if not markers: return RES_EXHAUSTED`.
RtNoMarkers ==
    /\ rt_pc = "call"
    /\ rt_list = <<>>
    /\ rt_pc' = "done"
    /\ UNCHANGED <<rt_res, rt_list, markers, rt_idx, inst, other, rt_removed,
                   rt_trigs, trig_ent>>
    /\ RtOthersUnchanged

\* The dict `markers` is filled and list(markers.items()) frozen.
RtBegin ==
    /\ rt_pc = "call"
    /\ rt_list # <<>>
    /\ rt_pc' = "loop"
    /\ markers' = {rt_list[k].targetname : k \in 1..Len(rt_list)}
    /\ rt_idx' = 1
    /\ rt_removed' = [n \in {rt_list[k].targetname : k \in 1..Len(rt_list)}
                        |-> 0]
    /\ UNCHANGED <<rt_res, rt_list, inst, other, rt_trigs, trig_ent>>
    /\ RtOthersUnchanged

\* The partner of the marker of this iteration: a target of its outputs that
\* is still a key of `markers` (taken out of the dict), else the marker
\* itself when its connection count is '0', else none ("" here).
Partners_ignoring_count(m) ==
    IF output_targets(m) \cap markers # {}
    THEN output_targets(m) \cap markers
    ELSE {m.targetname}
Partners(m) ==
    IF output_targets(m) \cap markers # {}
    THEN output_targets(m) \cap markers
    ELSE IF m.connectioncount = "0" THEN {m.targetname} ELSE {""}

MarkersAfter(m, o) ==
    IF o \in output_targets(m) \cap markers THEN markers \ {o} ELSE markers

\* An iteration that ends at `continue`: a marker with an input and no
\* output to a marker that is still in the dict.
RtSkip ==
    /\ rt_pc = "loop"
    /\ rt_idx <= Len(rt_list)
    /\ Partners(rt_list[rt_idx]) = {""}
    /\ inst' = rt_list[rt_idx].targetname
    /\ rt_idx' = rt_idx + 1
    /\ UNCHANGED <<rt_pc, rt_res, rt_list, markers, other, rt_removed,
                   rt_trigs, trig_ent>>
    /\ RtOthersUnchanged

\* An iteration that pairs the marker and builds the trigger. remove() is
\* called on each of {inst, other}.
RtPair ==
    /\ rt_pc = "loop"
    /\ rt_idx <= Len(rt_list)
    /\ LET m == rt_list[rt_idx]
       IN \E o \in Partners(m) :
            /\ o # ""
            /\ inst' = m.targetname
            /\ other' = o
            /\ markers' = MarkersAfter(m, o)
            /\ rt_removed' = [n \in DOMAIN rt_removed |->
                                IF n \in {m.targetname, o}
                                THEN rt_removed[n] + 1 ELSE rt_removed[n]]
            /\ trig_ent' = <<MakeTrigger(m, Marker(o), rt_res)>>
            /\ rt_trigs' = Append(rt_trigs, <<m.targetname, o>>)
    /\ rt_idx' = rt_idx + 1
    /\ UNCHANGED <<rt_pc, rt_res, rt_list>>
    /\ RtOthersUnchanged

\* An iteration that pairs the marker, where remove() on an instance that is
\* no longer in the map raises: the result ends there. The other instance of
\* the pair may have been removed just before.
RtRemoveRaises ==
    /\ rt_pc = "loop"
    /\ rt_idx <= Len(rt_list)
    /\ LET m == rt_list[rt_idx]
       IN \E o \in Partners(m) :
            /\ o # ""
            /\ \E e \in {m.targetname, o} :
                 /\ rt_removed[e] > 0
                 /\ \E before \in SUBSET ({m.targetname, o} \ {e}) :
                      rt_removed' = [n \in DOMAIN rt_removed |->
                                       IF n \in before \cup {e}
                                       THEN rt_removed[n] + 1
                                       ELSE rt_removed[n]]
            /\ inst' = m.targetname
            /\ other' = o
            /\ markers' = MarkersAfter(m, o)
    /\ rt_pc' = "raised"
    /\ UNCHANGED <<rt_res, rt_list, rt_idx, rt_trigs, trig_ent>>
    /\ RtOthersUnchanged

\* The loop is over: return RES_EXHAUSTED.
RtReturn ==
    /\ rt_pc = "loop"
    /\ rt_idx > Len(rt_list)
    /\ rt_pc' = "done"
    /\ UNCHANGED <<rt_res, rt_list, markers, rt_idx, inst, other, rt_removed,
                   rt_trigs, trig_ent>>
    /\ RtOthersUnchanged

RtNext ==
    \/ RtNoMarkers
    \/ RtBegin
    \/ RtSkip
    \/ RtPair
    \/ RtRemoveRaises
    \/ RtReturn

SpecRt == RtInit /\ [][RtNext]_vars

\* The pair of the trigger created last, as marker instances.
LastInst == Marker(rt_trigs[Len(rt_trigs)][1])
LastOther == Marker(rt_trigs[Len(rt_trigs)][2])

\* C5 as stated: whatever the links between the markers, no marker instance
\* has remove() called on it more than once and none is the inst or other of
\* more than one generated trigger.
RtEachMarkerOnce ==
    \A n \in DOMAIN rt_removed :
        /\ rt_removed[n] <= 1
        /\ Cardinality({k \in 1..Len(rt_trigs) :
                           n \in {rt_trigs[k][1], rt_trigs[k][2]}}) <= 1

Least(a, b) == IF a <= b THEN a ELSE b
Greatest(a, b) == IF a >= b THEN a ELSE b

\* C6: the trigger generated for a pair (inst, other) has exactly one brush,
\* a prism whose minimum corner is, on each axis, the smaller of the two
\* marker origins minus 64 and whose maximum corner is the larger plus 64; for
\* a marker paired with itself this is a 128-unit cube centred on its origin.
RtTriggerBox ==
    trig_ent # <<>> =>
        LET a == <<float(LastInst.origin[1]), float(LastInst.origin[2]),
                   float(LastInst.origin[3])>>
            b == <<float(LastOther.origin[1]), float(LastOther.origin[2]),
                   float(LastOther.origin[3])>>
            solids == trig_ent[1].solids
        IN /\ Len(solids) = 1
           /\ \A k \in 1..3 :
                /\ solids[1].min[k] = Least(a[k], b[k]) - 64
                /\ solids[1].max[k] = Greatest(a[k], b[k]) + 64
                /\ LastInst = LastOther =>
                     /\ solids[1].max[k] - solids[1].min[k] = 128
                     /\ solids[1].min[k] + solids[1].max[k] = 2 * a[k]

\* C6 witness: a trigger was generated for two different markers whose
\* origins differ, the first being the larger on one axis and the smaller on
\* another.
RtTriggerBoxWitness ==
    /\ trig_ent # <<>>
    /\ LastInst # LastOther
    /\ \E j, k \in 1..3 :
         /\ float(LastInst.origin[j]) > float(LastOther.origin[j])
         /\ float(LastInst.origin[k]) < float(LastOther.origin[k])

\* C7 as stated: the outputs the generated trigger has from its two markers
\* are exactly, in order, one per marker output that is on a registered pin,
\* whose trigger output name is not "" and that does not point to the
\* partner: with the trigger's activate or deactivate output name and with
\* the target, input, parameter, delay and repeat count of the marker output.
RtOutputsRemapped ==
    trig_ent # <<>> =>
        LET src == LastInst.outputs
                   \o (IF LastOther = LastInst THEN <<>> ELSE LastOther.outputs)
            OnAct(out) == out.inst_out = mark_act.name
                          /\ out.output = mark_act.out
            OnDeact(out) == out.inst_out = mark_deact.name
                            /\ out.output = mark_deact.out
            NameFor(out) == IF OnAct(out) THEN rt_res.triggerActivate
                            ELSE rt_res.triggerDeactivate
            Kept(out) == /\ OnAct(out) \/ OnDeact(out)
                         /\ NameFor(out) # ""
                         /\ out.target # LastOther.targetname
            kept == SelectSeq(src, Kept)
            expected == [k \in 1..Len(kept) |->
                           [inst_out |-> "", output |-> NameFor(kept[k]),
                            target |-> kept[k].target,
                            inst_in |-> kept[k].inst_in,
                            input |-> kept[k].input,
                            params |-> kept[k].params,
                            delay |-> kept[k].delay,
                            times |-> kept[k].times]]
            pre == IF rt_res.preview THEN 2 ELSE 0
            got == trig_ent[1].outputs
        IN SubSeq(got, pre + 1, Len(got)) = expected

(***************************************************************************)
(* voiceLine.py: add_voice and add_quote                                   *)
(***************************************************************************)
\* The values conv_bool is given: None, a bool, an int or a text.
PyNone == [type |-> "NoneType"]
PyBool(b) == [type |-> "bool", b |-> b]
PyInt(n) == [type |-> "int", n |-> n]
PyStr(t) == [type |-> "str", s |-> t]

\* utils.BOOL_LOOKUP: its keys (False and 0 are one key, as are True and 1)
\* and the value of a key.
BoolTexts == {"0", "no", "false", "FALSE", "n", "f",
              "1", "yes", "true", "TRUE", "y", "t"}
InBoolLookup(val) ==
    \/ val.type = "bool"
    \/ val.type = "int" /\ val.n \in {0, 1}
    \/ val.type = "str" /\ val.s \in BoolTexts
BOOL_LOOKUP(val) ==
    CASE val.type = "bool" -> val.b
      [] val.type = "int" -> val.n = 1
      [] val.type = "str" -> val.s \in {"1", "yes", "true", "TRUE", "y", "t"}

\* str.casefold() for the texts of the model.
casefold(t) ==
    CASE t \in {"Yes", "YES", "yEs"} -> "yes"
      [] t \in {"No", "NO"} -> "no"
      [] t \in {"True", "TRUE", "tRuE"} -> "true"
      [] t \in {"False", "FALSE"} -> "false"
      [] t = "Y" -> "y"
      [] t = "N" -> "n"
      [] t = "T" -> "t"
      [] t = "F" -> "f"
      [] t = "Maybe" -> "maybe"
      [] t \in {"Cube", "CUBE"} -> "cube"
      [] t = "WALL" -> "wall"
      [] t = "+Z" -> "+z"
      [] t = "Any" -> "any"
      [] t = "White" -> "white"
      [] OTHER -> t

\* conv_bool without the second lookup of the casefolded text.
conv_bool_exact(val, default) ==
    IF val.type = "NoneType" THEN default
    ELSE IF InBoolLookup(val) THEN BOOL_LOOKUP(val)
    ELSE default

\* utils.conv_bool(val, default): the default for None; the value of
\* BOOL_LOOKUP for one of its keys; else the value for the casefolded text,
\* or the default when that is no key either.
conv_bool(val, default) ==
    IF val.type = "NoneType" THEN default
    ELSE IF InBoolLookup(val) THEN BOOL_LOOKUP(val)
    ELSE IF InBoolLookup(PyStr(casefold(val.s)))
         THEN BOOL_LOOKUP(PyStr(casefold(val.s)))
         ELSE default

\* conv_bool raises for a value that is neither None, a key of BOOL_LOOKUP
\* nor a text: val.casefold() is an AttributeError.
conv_bool_raises(val) ==
    val.type \notin {"NoneType", "str"} /\ ~InBoolLookup(val)

\* VMF.create_ent(classname=..., targetname=...): the new entity.
create_ent(classname, targetname) ==
    [classname |-> classname, targetname |-> targetname]

\* A property of a quote line.
Prop(name, value) == [name |-> name, value |-> value]

\* add_quote(quote, targetname, ...) run over the properties of a line, from
\* the entities `ents` of the map and the set `added` (ADDED_BULLSEYES): the
\* entities and the set afterwards. A bullseye property creates an
\* npc_bullseye of that name unless the name is in the set, and adds the
\* name; snd, choreo and file each create their entity.
RECURSIVE add_quote(_, _, _, _)
add_quote(quote, targetname, ents, added) ==
    IF quote = <<>> THEN [ents |-> ents, added |-> added]
    ELSE LET prop == Head(quote)
             rest == Tail(quote)
         IN CASE prop.name = "bullseye" ->
                   IF prop.value \notin added
                   THEN add_quote(rest, targetname,
                                  Append(ents,
                                         create_ent("npc_bullseye", prop.value)),
                                  added \cup {prop.value})
                   ELSE add_quote(rest, targetname, ents, added)
              [] prop.name = "snd" ->
                   add_quote(rest, targetname,
                             Append(ents,
                                    create_ent("ambient_generic", targetname)),
                             added)
              [] prop.name = "choreo" ->
                   add_quote(rest, targetname,
                             Append(ents,
                                    create_ent("logic_choreographed_scene",
                                               targetname)),
                             added)
              [] prop.name = "file" ->
                   add_quote(rest, targetname,
                             Append(ents, create_ent("func_instance", "")),
                             added)
              [] OTHER -> add_quote(rest, targetname, ents, added)

\* `for mid_item, use_ding, mid_name in mid_quotes: add_quote(...)`.
RECURSIVE add_mid_quotes(_, _, _)
add_mid_quotes(quotes, ents, added) ==
    IF quotes = <<>> THEN [ents |-> ents, added |-> added]
    ELSE LET one == add_quote(Head(quotes), "@choreo", ents, added)
         IN add_mid_quotes(Tail(quotes), one.ents, one.added)

\* The microphones of lines 532-558: none unless a bullseye has been added or
\* UseMicrophones is set; one for single-player, two for cooperative.
Microphones(added, use_mics, mode) ==
    IF added # {} \/ conv_bool(PyStr(use_mics), FALSE)
    THEN IF mode = "SP"
         THEN <<create_ent("env_microphone", "player_speaker_sp")>>
         ELSE <<create_ent("env_microphone", "player_speaker_blue"),
                create_ent("env_microphone", "player_speaker_orange")>>
    ELSE <<>>

\* The bullseye names a line asks for.
BullseyesOf(quote) ==
    {quote[k].value : k \in {j \in 1..Len(quote) : quote[j].name = "bullseye"}}

\* The lines of the configs of the model: a sound; a line that names the
\* same bullseye twice; a choreo scene with another bullseye.
QuoteLines ==
    {<<Prop("snd", "announcer.wav")>>,
     <<Prop("bullseye", "cave_bullseye"), Prop("snd", "cave.wav"),
       Prop("bullseye", "cave_bullseye")>>,
     <<Prop("choreo", "wheatley.vcd"), Prop("bullseye", "cave_bullseye"),
       Prop("bullseye", "core_bullseye")>>}

\* A group of the config whose quote block passed its flags: its name and
\* the enabled lines of the block for the game mode.
Group(name, lines) == [name |-> name, lines |-> lines]

\* itertools.chain(find_all('group'), find_all('midchamber')): up to
\* MaxGroups normal groups of one line each, then no midchamber group or one
\* with up to MaxMidLines lines.
GroupChains ==
    {n \o m :
        n \in {[k \in 1..Len(ls) |-> Group("group", <<ls[k]>>)] :
                  ls \in SeqsUpTo(QuoteLines, MaxGroups)},
        m \in {<<>>} \cup
              {<<Group("midchamber", ls)>> :
                  ls \in SeqsUpTo(QuoteLines, MaxMidLines) \ {<<>>}}}

\* INST_PREFIX, the folder of the instances of the voice config.
INST_PREFIX == "instances/BEE2/voice/"

\* An Event block of the QuoteEvents block of the config, and the options of
\* a QuoteEvent result.
Event(id, file) == [id |-> id, file |-> file]
ConfigEvents == {Event("CUBE", "cube_event.vmf"),
                 Event("turret", "turret_event.vmf")}
EventResults == {Event("Cube", "instances/cube_default.vmf")}

\* dict[key] = value on a dict kept as its items in insertion order: a key
\* already present keeps its place.
dict_set(items_, key, value) ==
    IF \E k \in 1..Len(items_) : items_[k].id = key
    THEN [k \in 1..Len(items_) |->
             IF items_[k].id = key THEN Event(key, value) ELSE items_[k]]
    ELSE Append(items_, Event(key, value))

\* res_quote_event(inst, res): QUOTE_EVENTS[res['id'].casefold()] = res['file'].
res_quote_event(quote_events, res) ==
    dict_set(quote_events, casefold(res.id), res.file)

\* The loop of lines 449-456, with no effect on the registered events.
RECURSIVE resolve_events_keeps_default(_, _)
resolve_events_keeps_default(events, quote_events) ==
    IF events = <<>> THEN quote_events
    ELSE resolve_events_keeps_default(Tail(events), quote_events)

\* The loop of lines 449-456: every Event block of the config whose
\* casefolded id is not empty and is registered in QUOTE_EVENTS replaces the
\* registered file by INST_PREFIX + its own file; the others are ignored.
RECURSIVE resolve_events(_, _)
resolve_events(events, quote_events) ==
    IF events = <<>> THEN quote_events
    ELSE LET event == Head(events)
             event_id == casefold(event.id)
         IN IF event_id # "" /\ \E k \in 1..Len(quote_events) :
                                    quote_events[k].id = event_id
            THEN resolve_events(Tail(events),
                                dict_set(quote_events, event_id,
                                         INST_PREFIX \o event.file))
            ELSE resolve_events(Tail(events), quote_events)

\* VMF.create_ent(classname='func_instance', targetname=..., file=...).
create_inst(targetname, file) ==
    [classname |-> "func_instance", targetname |-> targetname, file |-> file]

\* The loop of lines 470-478: one instance for every value of QUOTE_EVENTS,
\* named voice_event_<index>.
event_instances(quote_events) ==
    [k \in 1..Len(quote_events) |->
        create_inst("voice_event_" \o ToString(k - 1), quote_events[k].file)]

\* The module as imported, with the voice config of the style loaded into
\* QUOTE_DATA: no pass has run, ADDED_BULLSEYES is empty.
VlInit ==
    /\ vl_pc = "idle"
    /\ vl_passes = 0
    /\ ADDED_BULLSEYES = {}
    /\ ALLOW_MID_VOICES = FALSE
    /\ VMF = <<>>
    /\ GAME_MODE = "SP"
    /\ \E use_mics \in {"", "1"}, chain \in GroupChains,
          events \in SeqsUpTo(ConfigEvents, MaxEvents) :
         QUOTE_DATA = [UseMicrophones |-> use_mics, groups |-> chain,
                       events |-> events]
    /\ QUOTE_EVENTS = <<>>
    /\ vl_groups = <<>>
    /\ mid_quotes = <<>>
    /\ vl_requested = {}
    /\ VlOthersIdle

\* add_voice(has_items, style_vars_, vmf_file, map_seed) is called with a new
\* map document, for a compile in some game mode with some style variables:
\* lines 392-424. VMF, map_attr and style_vars are assigned and
\* ALLOW_MID_VOICES computed; ADDED_BULLSEYES is not. The registered quote
\* events are resolved against the QuoteEvents block of QUOTE_DATA and one
\* instance is created for each (lines 446-478). The groups are those of
\* QUOTE_DATA.
VlBegin ==
    /\ vl_pc \in {"idle", "done"}
    /\ vl_passes < MaxPasses
    /\ vl_passes' = vl_passes + 1
    /\ QUOTE_EVENTS' = resolve_events(QUOTE_DATA.events, QUOTE_EVENTS)
    /\ VMF' = event_instances(QUOTE_EVENTS')
    /\ GAME_MODE' \in {"SP", "COOP"}
    /\ vl_groups' = QUOTE_DATA.groups
    /\ \E nomidvoices \in BOOLEAN : ALLOW_MID_VOICES' = ~nomidvoices
    /\ mid_quotes' = <<>>
    /\ vl_requested' = {}
    /\ vl_pc' = "groups"
    /\ UNCHANGED <<ADDED_BULLSEYES, QUOTE_DATA>>
    /\ VlOthersUnchanged

\* The QuoteEvent result runs for an instance, between passes: it records
\* the file it is given under the casefolded id.
VlQuoteEvent ==
    /\ vl_pc \in {"idle", "done"}
    /\ vl_passes < MaxPasses
    /\ \E res \in EventResults :
         QUOTE_EVENTS' = res_quote_event(QUOTE_EVENTS, res)
    /\ UNCHANGED <<vl_pc, vl_passes, ADDED_BULLSEYES, ALLOW_MID_VOICES, VMF,
                   GAME_MODE, QUOTE_DATA, vl_groups, mid_quotes, vl_requested>>
    /\ VlOthersUnchanged

\* One iteration of the loop over the groups, for a midchamber group while
\* mid-chamber voices are allowed: find_group_quotes appends every line to
\* mid_quotes and yields nothing, so no line is added here.
VlGroupMid ==
    /\ vl_pc = "groups"
    /\ vl_groups # <<>>
    /\ Head(vl_groups).name = "midchamber"
    /\ ALLOW_MID_VOICES
    /\ mid_quotes' = mid_quotes \o Head(vl_groups).lines
    /\ vl_groups' = Tail(vl_groups)
    /\ UNCHANGED <<vl_pc, vl_passes, ADDED_BULLSEYES, ALLOW_MID_VOICES, VMF,
                   GAME_MODE, QUOTE_DATA, QUOTE_EVENTS, vl_requested>>
    /\ VlOthersUnchanged

\* One iteration of the loop over the groups in which find_group_quotes
\* yields the block: random.choice picks one of its lines and add_quote adds
\* it.
VlGroupQuote ==
    /\ vl_pc = "groups"
    /\ vl_groups # <<>>
    /\ ~(Head(vl_groups).name = "midchamber" /\ ALLOW_MID_VOICES)
    /\ \E k \in 1..Len(Head(vl_groups).lines) :
         LET line == Head(vl_groups).lines[k]
             out == add_quote(line, "@choreo", VMF, ADDED_BULLSEYES)
         IN /\ VMF' = out.ents
            /\ ADDED_BULLSEYES' = out.added
            /\ vl_requested' = vl_requested \cup BullseyesOf(line)
    /\ vl_groups' = Tail(vl_groups)
    /\ UNCHANGED <<vl_pc, vl_passes, ALLOW_MID_VOICES, GAME_MODE, QUOTE_DATA,
                   QUOTE_EVENTS, mid_quotes>>
    /\ VlOthersUnchanged

\* After the loop over the groups: the microphones.
VlMicrophones ==
    /\ vl_pc = "groups"
    /\ vl_groups = <<>>
    /\ VMF' = VMF \o Microphones(ADDED_BULLSEYES, QUOTE_DATA.UseMicrophones,
                                 GAME_MODE)
    /\ vl_pc' = "mid"
    /\ UNCHANGED <<vl_passes, ADDED_BULLSEYES, ALLOW_MID_VOICES, GAME_MODE,
                   QUOTE_DATA, QUOTE_EVENTS, vl_groups, mid_quotes,
                   vl_requested>>
    /\ VlOthersUnchanged

\* Last, every collected mid-chamber line is added, and add_voice returns.
VlMidQuotes ==
    /\ vl_pc = "mid"
    /\ LET out == add_mid_quotes(mid_quotes, VMF, ADDED_BULLSEYES)
       IN /\ VMF' = out.ents
          /\ ADDED_BULLSEYES' = out.added
    /\ vl_requested' =
         vl_requested \cup
         UNION {BullseyesOf(mid_quotes[k]) : k \in 1..Len(mid_quotes)}
    /\ vl_pc' = "done"
    /\ UNCHANGED <<vl_passes, ALLOW_MID_VOICES, GAME_MODE, QUOTE_DATA,
                   QUOTE_EVENTS, vl_groups, mid_quotes>>
    /\ VlOthersUnchanged

VlNext ==
    \/ VlBegin
    \/ VlQuoteEvent
    \/ VlGroupMid
    \/ VlGroupQuote
    \/ VlMicrophones
    \/ VlMidQuotes

SpecVoice == VlInit /\ [][VlNext]_vars

\* The entities of the map document with a class, and with a class and name.
EntsOfClass(c) == {k \in 1..Len(VMF) : VMF[k].classname = c}
EntsNamed(c, n) == {k \in EntsOfClass(c) : VMF[k].targetname = n}

\* C8 as stated: when a pass has finished, if a bullseye entity was placed in
\* it (by a group's line or by a mid-chamber line) or UseMicrophones is set,
\* the map has the microphones of the game mode: exactly one named
\* player_speaker_sp in single-player, exactly player_speaker_blue and
\* player_speaker_orange in cooperative.
VoiceMicrophonesPlaced ==
    (/\ vl_pc = "done"
     /\ \/ EntsOfClass("npc_bullseye") # {}
        \/ conv_bool(PyStr(QUOTE_DATA.UseMicrophones), FALSE))
    => IF GAME_MODE = "SP"
       THEN /\ Cardinality(EntsOfClass("env_microphone")) = 1
            /\ Cardinality(EntsNamed("env_microphone", "player_speaker_sp")) = 1
       ELSE /\ Cardinality(EntsOfClass("env_microphone")) = 2
            /\ Cardinality(EntsNamed("env_microphone",
                                     "player_speaker_blue")) = 1
            /\ Cardinality(EntsNamed("env_microphone",
                                     "player_speaker_orange")) = 1

\* C9 as stated: within a pass, for every bullseye name that the lines added
\* so far ask for, however often, the map document has exactly one
\* npc_bullseye entity of that name.
VoiceOneBullseyePerName ==
    \A n \in vl_requested :
        Cardinality(EntsNamed("npc_bullseye", n)) = 1

\* C10 as stated: every pass starts from fresh pass state, so the set of
\* placed bullseye names is empty when a pass starts, and when a pass has
\* finished every bullseye name its lines asked for has an entity in that
\* pass's map document.
VoicePassStartsFresh ==
    /\ (vl_pc = "groups" /\ vl_groups = QUOTE_DATA.groups
        /\ VMF = event_instances(QUOTE_EVENTS)
        /\ vl_requested = {}) => ADDED_BULLSEYES = {}
    /\ vl_pc = "done" =>
          \A n \in vl_requested : EntsNamed("npc_bullseye", n) # {}
\* C11 as stated: while mid-chamber voices are disabled (style variable
\* nomidvoices true), the iteration of add_voice over the midchamber group
\* adds no entity to the map document for any of its lines.
VoiceMidGroupGated ==
    [][(/\ vl_pc = "groups"
        /\ vl_groups # <<>>
        /\ Head(vl_groups).name = "midchamber"
        /\ ~ALLOW_MID_VOICES)
       => VMF' = VMF]_vars

(***************************************************************************)
(* voiceLine.py: the ranking of the candidate quote blocks of a group      *)
(***************************************************************************)
\* The classes an exception is an instance of.
ExceptionBases(exc) ==
    CASE exc = "InvalidOperation" ->
           {"InvalidOperation", "DecimalException", "ArithmeticError",
            "Exception"}
      [] exc = "ValueError" -> {"ValueError", "Exception"}
      [] OTHER -> {exc, "Exception"}

\* The priority texts of the model; the default of a block without a
\* priority is "0".
PriorityTexts == {"0", "1", "1.5", "-1", "high", ""}

\* decimal.Decimal(text), the value counted in tenths: a text that is not a
\* number makes the constructor raise decimal.InvalidOperation.
Decimal(text) ==
    CASE text = "0" -> [raised |-> "none", value |-> 0]
      [] text = "1" -> [raised |-> "none", value |-> 10]
      [] text = "1.5" -> [raised |-> "none", value |-> 15]
      [] text = "-1" -> [raised |-> "none", value |-> -10]
      [] OTHER -> [raised |-> "InvalidOperation"]

PossibleQuote(priority, lines) == [priority |-> priority, lines |-> lines]

\* sort_func(quote): Decimal(quote.priority), and Decimal(0) when that raises
\* a ValueError; any other exception propagates.
sort_func(quote) ==
    LET d == Decimal(quote.priority)
    IN IF d.raised = "none" THEN d
       ELSE IF "ValueError" \in ExceptionBases(d.raised) THEN Decimal("0")
       ELSE d

\* sorted(..., reverse=True) over <<key, block>> pairs: descending by key,
\* blocks of equal keys in their original order.
RECURSIVE InsertDescending(_, _)
InsertDescending(p, sorted) ==
    IF sorted = <<>> THEN <<p>>
    ELSE IF Head(sorted)[1] <= p[1] THEN <<p>> \o sorted
    ELSE <<Head(sorted)>> \o InsertDescending(p, Tail(sorted))

RECURSIVE SortedDescending(_)
SortedDescending(pairs) ==
    IF pairs = <<>> THEN <<>>
    ELSE InsertDescending(Head(pairs), SortedDescending(Tail(pairs)))

\* sorted(find_group_quotes(...), key=sort_func, reverse=True): the key of
\* every block is computed first, and the first exception ends the call.
sorted_quotes(quotes) ==
    LET bad == {k \in 1..Len(quotes) : sort_func(quotes[k]).raised # "none"}
        pairs == [k \in 1..Len(quotes) |->
                     <<sort_func(quotes[k]).value, quotes[k]>>]
    IN IF bad # {}
       THEN [raised |-> sort_func(quotes[CHOOSE k \in bad :
                                            \A j \in bad : k <= j]).raised]
       ELSE [raised |-> "none",
             value |-> [k \in 1..Len(quotes) |->
                           SortedDescending(pairs)[k][2]]]

\* The candidate blocks find_group_quotes yields for a group: each with its
\* priority text and its lines (here the position of the block in the group).
RankCalls ==
    {[fn |-> "rank",
      quotes |-> [k \in 1..Len(ps) |-> PossibleQuote(ps[k], k)],
      use_priority |-> up] :
        ps \in SeqsUpTo(PriorityTexts, MaxQuotes), up \in BOOLEAN}

RankInit ==
    /\ fn_call \in RankCalls
    /\ fn_ret = Pending
    /\ FnOthersIdle

\* Lines 489-512 of add_voice for one group: the blocks are ranked, and if
\* there is one a block is chosen, the first when use_priority is set and
\* any of them (random.choice) otherwise.
RankGroup ==
    /\ fn_call.fn = "rank"
    /\ fn_ret = Pending
    /\ LET possible_quotes == sorted_quotes(fn_call.quotes)
       IN IF possible_quotes.raised # "none"
          THEN fn_ret' = [raised |-> possible_quotes.raised]
          ELSE IF possible_quotes.value = <<>>
          THEN fn_ret' = [raised |-> "none", possible_quotes |-> <<>>,
                          chosen |-> 0]
          ELSE \E k \in 1..Len(possible_quotes.value) :
                  /\ fn_call.use_priority => k = 1
                  /\ fn_ret' = [raised |-> "none",
                                possible_quotes |-> possible_quotes.value,
                                chosen |-> possible_quotes.value[k].lines]
    /\ UNCHANGED fn_call
    /\ FnOthersUnchanged

RankNext == RankGroup

SpecRank == RankInit /\ [][RankNext]_vars

\* The blocks with every priority that is not a decimal replaced by "0".
ZeroedPriorities(quotes) ==
    [k \in 1..Len(quotes) |->
        IF Decimal(quotes[k].priority).raised = "none" THEN quotes[k]
        ELSE PossibleQuote("0", quotes[k].lines)]

\* C12 as stated: when the candidate blocks of a group are ranked and one of
\* them has a priority text that is not a decimal, the ranking completes
\* without an exception, and the blocks are in the order they would have if
\* that priority were 0.
RankBadPriorityIsZero ==
    (/\ fn_call.fn = "rank"
     /\ fn_ret # Pending
     /\ \E k \in 1..Len(fn_call.quotes) :
           Decimal(fn_call.quotes[k].priority).raised # "none")
    => /\ fn_ret.raised = "none"
       /\ [k \in 1..Len(fn_ret.possible_quotes) |->
              fn_ret.possible_quotes[k].lines]
          = [k \in 1..Len(fn_call.quotes) |->
              sorted_quotes(ZeroedPriorities(fn_call.quotes)).value[k].lines]

\* The voice-event instances of the map document, in the order of creation.
EventInstances ==
    SelectSeq(VMF, LAMBDA e : e.classname = "func_instance"
                              /\ e.targetname # "")

\* The Event blocks of the config with a casefolded id.
ConfiguredAs(id) ==
    {k \in 1..Len(QUOTE_DATA.events) : casefold(QUOTE_DATA.events[k].id) = id}

\* The file the QuoteEvent result gives for a casefolded id.
ResultFile(id) ==
    (CHOOSE res \in EventResults : casefold(res.id) = id).file

cos_deg(a) ==
    CASE a % 360 = 0 -> 1
      [] a % 360 = 90 -> 0
      [] a % 360 = 180 -> -1
      [] a % 360 = 270 -> 0
sin_deg(a) ==
    CASE a % 360 = 0 -> 0
      [] a % 360 = 90 -> 1
      [] a % 360 = 180 -> 0
      [] a % 360 = 270 -> -1

\* Vec.mat_mul(matrix): the product of the 3x3 matrix, given by rows, and
\* the vector.
mat_mul(v, m) ==
    <<v[1] * m[1] + v[2] * m[2] + v[3] * m[3],
      v[1] * m[4] + v[2] * m[5] + v[3] * m[6],
      v[1] * m[7] + v[2] * m[8] + v[3] * m[9]>>

\* Vec.rotate(pitch, yaw, roll): roll about x, then pitch about y, then yaw
\* about z.
Vec_rotate(v, pitch, yaw, roll) ==
    LET mat_roll == <<1, 0, 0,
                      0, cos_deg(roll), -sin_deg(roll),
                      0, sin_deg(roll), cos_deg(roll)>>
        mat_yaw == <<cos_deg(yaw), -sin_deg(yaw), 0,
                     sin_deg(yaw), cos_deg(yaw), 0,
                     0, 0, 1>>
        mat_pitch == <<cos_deg(pitch), 0, sin_deg(pitch),
                       0, 1, 0,
                       -sin_deg(pitch), 0, cos_deg(pitch)>>
    IN mat_mul(mat_mul(mat_mul(v, mat_roll), mat_pitch), mat_yaw)

\* Vec.rotate_by_str(ang): the angle is parsed with the defaults 0, 0, 0.
Vec_rotate_by_str(v, ang) ==
    LET a == parse_str(ang, 0, 0, 0)
    IN Vec_rotate(v, a[1], a[2], a[3])

\* Vec.__neg__.
Vec_neg(v) == <<-v[1], -v[2], -v[3]>>

\* conditions.DIRECTIONS: the keyword table, six axis directions and the
\* pseudo-direction WALL.
DirectionWords == {"+x", "-x", "+y", "-y", "+z", "-z", "wall", "walls"}
DIRECTIONS(word) ==
    CASE word = "+x" -> <<1, 0, 0>>
      [] word = "-x" -> <<-1, 0, 0>>
      [] word = "+y" -> <<0, 1, 0>>
      [] word = "-y" -> <<0, -1, 0>>
      [] word = "+z" -> <<0, 0, 1>>
      [] word = "-z" -> <<0, 0, -1>>
      [] word \in {"wall", "walls"} -> <<"WALL">>

\* A text is kept as its space-separated tokens; a keyword is a text of one
\* token. prop[key, default] on a block kept as a record of its keys.
Get(block, key, default) ==
    IF key \in DOMAIN block THEN block[key] ELSE default

InDirections(text) == Len(text) = 1 /\ casefold(text[1]) \in DirectionWords

\* Lines 54-60 with the inverse never allowed.
angles_result_no_inverse(normal, inst_normal, allow_inverse) ==
    IF normal = <<"WALL">>
    THEN ~(inst_normal = <<0, 0, 1>> \/ inst_normal = <<0, 0, -1>>)
    ELSE inst_normal = normal

\* Lines 54-60 with only the floor excluded from the walls.
angles_result_floor_only(normal, inst_normal, allow_inverse) ==
    IF normal = <<"WALL">>
    THEN ~(inst_normal = <<0, 0, 1>>)
    ELSE inst_normal = normal
         \/ (allow_inverse /\ Vec_neg(inst_normal) = normal)

\* Lines 54-60: the comparison of the rotated from_dir with the target.
angles_result(normal, inst_normal, allow_inverse) ==
    IF normal = <<"WALL">>
    THEN ~(inst_normal = <<0, 0, 1>> \/ inst_normal = <<0, 0, -1>>)
    ELSE inst_normal = normal
         \/ (allow_inverse /\ Vec_neg(inst_normal) = normal)

\* flag_angles(inst, flag): the outcome, a value or the exception raised.
\* Vec('WALL'), for a from_dir that names the pseudo-direction, raises
\* ValueError.
flag_angles(inst_, flag) ==
    LET angle == Get(inst_, "angles", <<"0", "0", "0">>)
        children == flag.has_children
        targ_angle == IF children
                      THEN Get(flag, "direction", <<"0", "0", "0">>)
                      ELSE flag.value
        from_text == Get(flag, "from_dir", <<"0", "0", "1">>)
        from_dir == IF ~children THEN <<0, 0, 1>>
                    ELSE IF InDirections(from_text)
                    THEN DIRECTIONS(casefold(from_text[1]))
                    ELSE parse_str(from_text, 0, 0, 1)
        allow_inverse == IF children
                         THEN conv_bool(PyStr(Get(flag, "allow_inverse",
                                                  "0")), FALSE)
                         ELSE FALSE
    IN IF children /\ from_dir = <<"WALL">>
       THEN [raised |-> "ValueError"]
       ELSE IF ~InDirections(targ_angle)
       THEN [raised |-> "none", value |-> FALSE]
       ELSE [raised |-> "none",
             value |-> angles_result(DIRECTIONS(casefold(targ_angle[1])),
                                     Vec_rotate_by_str(from_dir, angle),
                                     allow_inverse)]

\* The text of an angle of k quarter turns.
TurnText(k) ==
    CASE k = 0 -> "0"
      [] k = 1 -> "90"
      [] k = 2 -> "180"
      [] k = 3 -> "270"
      [] k = 4 -> "360"
      [] OTHER -> "450"

\* The instances of the model: with an angle of whole quarter turns, with an
\* angle text that is not an angle, or with no angles key.
AngleTexts ==
    {<<TurnText(p), TurnText(y), TurnText(r)>> : p, y, r \in 0..MaxTurns}
Instances ==
    {[angles |-> a] : a \in AngleTexts \cup {<<"up">>}}
    \cup {[origin |-> <<"0", "0", "0">>]}

\* The flags of the model: a bare target, or a block of options.
TargetTexts ==
    {<<"+x">>, <<"-x">>, <<"+y">>, <<"-y">>, <<"+Z">>, <<"-z">>,
     <<"WALL">>, <<"walls">>, <<"0", "0", "1">>, <<"sideways">>}
FromDirTexts ==
    {<<"+x">>, <<"-z">>, <<"0", "1", "0">>, <<"0", "0", "2">>, <<"wall">>}
AnglesBlocks ==
    LET withDir == {[has_children |-> TRUE]}
                   \cup {[has_children |-> TRUE, direction |-> d] :
                            d \in TargetTexts}
        withFrom == withDir
                    \cup {[k \in DOMAIN b \cup {"from_dir"} |->
                              IF k = "from_dir" THEN f ELSE b[k]] :
                             b \in withDir, f \in FromDirTexts}
    IN withFrom
       \cup {[k \in DOMAIN b \cup {"allow_inverse"} |->
                 IF k = "allow_inverse" THEN a ELSE b[k]] :
                b \in withFrom, a \in {"0", "1", "True", "maybe"}}
AnglesFlags ==
    {[has_children |-> FALSE, value |-> t] : t \in TargetTexts}
    \cup AnglesBlocks

AnglesInit ==
    /\ fn_call \in {[fn |-> "flag_angles", inst |-> i, flag |-> f] :
                       i \in Instances, f \in AnglesFlags}
    /\ fn_ret = Pending
    /\ FnOthersIdle

\* The orientation flag is evaluated for the instance.
AnglesFlag ==
    /\ fn_call.fn = "flag_angles"
    /\ fn_ret = Pending
    /\ fn_ret' = flag_angles(fn_call.inst, fn_call.flag)
    /\ UNCHANGED fn_call
    /\ FnOthersUnchanged

AnglesNext == AnglesFlag

SpecAngles == AnglesInit /\ [][AnglesNext]_vars

\* The evaluated call of the orientation flag, when it returned.
AnglesReturned ==
    /\ fn_call.fn = "flag_angles"
    /\ fn_ret # Pending
    /\ fn_ret.raised = "none"

\* The target text, the from_dir and the rotated from_dir of that call.
AnglesTarget ==
    IF fn_call.flag.has_children
    THEN Get(fn_call.flag, "direction", <<"0", "0", "0">>)
    ELSE fn_call.flag.value
AnglesFromDir ==
    IF ~fn_call.flag.has_children \/ "from_dir" \notin DOMAIN fn_call.flag
    THEN <<0, 0, 1>>
    ELSE IF InDirections(fn_call.flag.from_dir)
    THEN DIRECTIONS(casefold(fn_call.flag.from_dir[1]))
    ELSE parse_str(fn_call.flag.from_dir, 0, 0, 1)
AnglesRotated ==
    Vec_rotate_by_str(AnglesFromDir,
                      Get(fn_call.inst, "angles", <<"0", "0", "0">>))
AnglesAllowInverse ==
    /\ fn_call.flag.has_children
    /\ "allow_inverse" \in DOMAIN fn_call.flag
    /\ fn_call.flag.allow_inverse \in {"1", "True"}
AxisWords == {"+x", "-x", "+y", "-y", "+z", "-z"}

\* C16: when the target is a recognised axis direction and from_dir rotated
\* by the instance angle is exactly the negation of the target, the flag
\* returns true if allow_inverse is set to a true value, and false if it is
\* unset or not true.
AnglesInverse ==
    (/\ AnglesReturned
     /\ Len(AnglesTarget) = 1
     /\ casefold(AnglesTarget[1]) \in AxisWords
     /\ AnglesRotated = Vec_neg(DIRECTIONS(casefold(AnglesTarget[1]))))
    => fn_ret.value = AnglesAllowInverse

\* The instance is turned, the rotated from_dir is the negated target, the
\* inverse is allowed and the flag is true.
AnglesInverseWitness ==
    /\ AnglesReturned
    /\ Len(AnglesTarget) = 1
    /\ casefold(AnglesTarget[1]) \in AxisWords
    /\ AnglesRotated = Vec_neg(DIRECTIONS(casefold(AnglesTarget[1])))
    /\ AnglesRotated # AnglesFromDir
    /\ AnglesAllowInverse
    /\ fn_ret.value = TRUE

\* C17: with the target WALL (in any letter case), the flag returns false
\* when from_dir rotated by the instance angle is (0,0,1) or (0,0,-1) and
\* true for every other rotated vector, whatever allow_inverse is.
AnglesWall ==
    (/\ AnglesReturned
     /\ Len(AnglesTarget) = 1
     /\ casefold(AnglesTarget[1]) = "wall")
    => fn_ret.value = (AnglesRotated \notin {<<0, 0, 1>>, <<0, 0, -1>>})

\* The instance is turned so that a from_dir along an axis points straight
\* down, the inverse is allowed, and the WALL flag is false.
AnglesWallWitness ==
    /\ AnglesReturned
    /\ Len(AnglesTarget) = 1
    /\ casefold(AnglesTarget[1]) = "wall"
    /\ AnglesFromDir = <<1, 0, 0>>
    /\ AnglesRotated = <<0, 0, -1>>
    /\ AnglesAllowInverse
    /\ fn_ret.value = FALSE

(***************************************************************************)
(* utils.conv_bool                                                         *)
(***************************************************************************)
\* The values of the model: None, the bools, ints, the texts of the table
\* in several letter cases, and other texts.
BoolValues ==
    {PyNone, PyBool(TRUE), PyBool(FALSE), PyInt(0), PyInt(1), PyInt(2)}
    \cup {PyStr(t) : t \in BoolTexts}
    \cup {PyStr(t) : t \in {"Yes", "YES", "yEs", "No", "NO", "True", "tRuE",
                            "False", "Y", "N", "T", "F"}}
    \cup {PyStr(t) : t \in {"", "2", "maybe", "Maybe", " 1", "on", "wall"}}

BoolInit ==
    /\ fn_call \in {[fn |-> "conv_bool", val |-> v, default |-> d] :
                       v \in BoolValues, d \in BOOLEAN}
    /\ fn_ret = Pending
    /\ FnOthersIdle

\* conv_bool(val, default) is called.
BoolConv ==
    /\ fn_call.fn = "conv_bool"
    /\ fn_ret = Pending
    /\ fn_ret' = IF conv_bool_raises(fn_call.val)
                 THEN [raised |-> "AttributeError"]
                 ELSE [raised |-> "none",
                       value |-> conv_bool(fn_call.val, fn_call.default)]
    /\ UNCHANGED fn_call
    /\ FnOthersUnchanged

BoolNext == BoolConv

SpecBool == BoolInit /\ [][BoolNext]_vars

\* The table of the claim: the true and the false values, texts in lower
\* case, and the texts of the model in lower case.
TrueWords == {"1", "yes", "true", "y", "t"}
FalseWords == {"0", "no", "false", "n", "f"}
Lower(t) ==
    CASE t \in {"Yes", "YES", "yEs"} -> "yes"
      [] t \in {"No", "NO"} -> "no"
      [] t \in {"True", "TRUE", "tRuE"} -> "true"
      [] t \in {"False", "FALSE"} -> "false"
      [] t = "Y" -> "y"
      [] t = "N" -> "n"
      [] t = "T" -> "t"
      [] t = "F" -> "f"
      [] t = "Maybe" -> "maybe"
      [] OTHER -> t

\* C20: conv_bool returns true for 1, True and the texts 1, yes, true, y, t
\* in any letter case, false for 0, False and the texts 0, no, false, n, f in
\* any letter case, and the supplied default for None and for every other
\* text.
BoolTable ==
    (fn_call.fn = "conv_bool" /\ fn_ret # Pending) =>
        LET val == fn_call.val
        IN CASE val.type = "NoneType" ->
                  fn_ret = [raised |-> "none", value |-> fn_call.default]
             [] val.type = "bool" ->
                  fn_ret = [raised |-> "none", value |-> val.b]
             [] val.type = "int" /\ val.n \in {0, 1} ->
                  fn_ret = [raised |-> "none", value |-> (val.n = 1)]
             [] val.type = "str" ->
                  fn_ret = [raised |-> "none",
                            value |-> IF Lower(val.s) \in TrueWords THEN TRUE
                                      ELSE IF Lower(val.s) \in FalseWords
                                      THEN FALSE
                                      ELSE fn_call.default]
             [] OTHER -> TRUE

\* A text of the table in mixed case is converted, against the default.
BoolTableWitness ==
    /\ fn_call.fn = "conv_bool"
    /\ fn_call.val = PyStr("tRuE")
    /\ fn_call.default = FALSE
    /\ fn_ret = [raised |-> "none", value |-> TRUE]

(***************************************************************************)
(* conditions/positioning.py: the posIsSolid flag                          *)
(***************************************************************************)
\* `v += w` for two vectors.
Vec_iadd_vec(v, w) == <<v[1] + w[1], v[2] + w[2], v[3] + w[3]>>

\* x // 128 * 128 + 64 for one axis.
snap_axis(x) == (x \div 128) * 128 + 64

\* Lines 91-95: norm, <<>> for None.
brush_norm(inst_, flag) ==
    IF "dir" \notin DOMAIN flag THEN <<>>
    ELSE Vec_rotate_by_str(Vec_from_str(flag.dir),
                           Get(inst_, "angles", <<"0", "0", "0">>))

\* Lines 84-102: pos, from the pos option lowered by 64, rotated by the
\* instance angle and moved to the instance origin; with gridpos set and a
\* normal given, the axes in which the normal is 0 are snapped to the middle
\* of their 128 cell.
brush_pos(inst_, flag) ==
    LET from == Vec_from_str(Get(flag, "pos", <<"0", "0", "0">>))
        floor == <<from[1], from[2], from[3] - 64>>
        turned == Vec_rotate_by_str(floor,
                                    Get(inst_, "angles", <<"0", "0", "0">>))
        pos == Vec_iadd_vec(turned,
                            Vec_from_str(Get(inst_, "origin",
                                             <<"0", "0", "0">>)))
        norm == brush_norm(inst_, flag)
    IN IF conv_bool(PyStr(Get(flag, "gridpos", "0")), FALSE) /\ norm # <<>>
       THEN [axis \in 1..3 |->
                IF norm[axis] = 0 THEN snap_axis(pos[axis]) ELSE pos[axis]]
       ELSE pos

\* A brush of the registry: conditions.solidGroup, with the face normal, the
\* colour and the solid of the map.
solidGroup(normal, color, solid) ==
    [normal |-> normal, color |-> color, solid |-> solid]

\* SOLIDS.get(pos.as_tuple(), None) on the registry kept as a set of
\* <<position, brush>> pairs: <<>> for None, else <<brush>>.
solids_get(solids, pos) ==
    IF \E e \in solids : e[1] = pos
    THEN <<(CHOOSE e \in solids : e[1] = pos)[2]>>
    ELSE <<>>

\* Lines 110-113: br_type.
brush_type(brush, norm) ==
    IF brush = <<>> \/ (norm # <<>> /\ brush[1].normal # norm)
    THEN "none"
    ELSE brush[1].color

\* Lines 114-117 with the brush removed whenever one is at the position.
brush_removed_any_normal(brush, norm, should_remove) ==
    IF brush # <<>> /\ should_remove THEN {brush[1].solid} ELSE {}

\* Lines 110-117: the solids given to VMF.remove_brush.
brush_removed(brush, norm, should_remove) ==
    IF brush = <<>> \/ (norm # <<>> /\ brush[1].normal # norm)
    THEN {}
    ELSE IF should_remove THEN {brush[1].solid} ELSE {}

\* Lines 122-125 without the test for 'any'.
brush_result_exact(des_type, br_type) == des_type = br_type

\* Lines 122-125: the value of the flag.
brush_result(des_type, br_type) ==
    IF des_type = "any" /\ br_type # "none" THEN TRUE
    ELSE des_type = br_type

\* flag_brush_at_loc(inst, flag) with the registry SOLIDS and the brushes of
\* the map: the value, the brushes of the map afterwards and the fixup
\* variables set.
flag_brush_at_loc(inst_, flag, solids, brushes) ==
    LET pos == brush_pos(inst_, flag)
        norm == brush_norm(inst_, flag)
        result_var == Get(flag, "setVar", "")
        should_remove == conv_bool(IF "RemoveBrush" \in DOMAIN flag
                                   THEN PyStr(flag.RemoveBrush)
                                   ELSE PyBool(FALSE), FALSE)
        des_type == casefold(Get(flag, "type", "any"))
        brush == solids_get(solids, pos)
        br_type == brush_type(brush, norm)
    IN [raised |-> "none",
        value |-> brush_result(des_type, br_type),
        brushes |-> brushes \ brush_removed(brush, norm, should_remove),
        fixup |-> IF result_var # "" THEN <<<<result_var, br_type>>>>
                  ELSE <<>>]

\* A block with one more key, and a set of blocks with the key absent or set
\* to one of the values.
With(block, key, val) ==
    [k \in DOMAIN block \cup {key} |-> IF k = key THEN val ELSE block[k]]
Extend(blocks, key, vals) ==
    blocks \cup {With(b, key, v) : b \in blocks, v \in vals}

\* The posIsSolid flags of the model.
BrushFlags ==
    Extend(Extend(Extend(Extend(Extend(Extend({[has_children |-> TRUE]},
        "pos", {<<"0", "0", "128">>, <<"100", "0", "0">>}),
        "dir", {<<"0", "0", "1">>, <<"0", "0", "-1">>}),
        "gridpos", {"1"}),
        "setVar", {"kind"}),
        "RemoveBrush", {"1"}),
        "type", {"black", "none", "Any"})

\* The instances: an angle of whole quarter turns of pitch and an origin, or
\* neither key.
BrushInstances ==
    {[angles |-> <<TurnText(p), "0", "0">>, origin |-> o] :
        p \in 0..MaxTurns, o \in {<<"0", "0", "0">>, <<"128", "0", "0">>}}
    \cup {[targetname |-> <<"inst">>]}

\* The registries: up to MaxSolids brushes, each in its own cell, with a face
\* normal and a colour; the solid of the brush of a cell is named by the
\* cell's number.
SolidCells == <<<<0, 0, -64>>, <<-64, 0, 0>>, <<64, 64, -64>>>>
SolidKinds == {<<<<0, 0, 1>>, "white">>, <<<<0, 0, -1>>, "black">>,
               <<<<1, 0, 0>>, "white">>}
RECURSIVE Registries(_)
Registries(n) ==
    IF n = 0 THEN {{}}
    ELSE LET less == Registries(n - 1)
         IN less \cup
            {r \cup {<<SolidCells[c], solidGroup(k[1], k[2], c)>>} :
                r \in less, c \in 1..Len(SolidCells), k \in SolidKinds}
SolidRegistries ==
    {r \in Registries(MaxSolids) :
        \A e, f \in r : e[1] = f[1] => e = f}

\* The brushes of the map: those of the registry and one that is not in it.
MapBrushes(solids) == {e[2].solid : e \in solids} \cup {0}

BrushInit ==
    /\ fn_call \in {[fn |-> "flag_brush_at_loc", inst |-> i, flag |-> f,
                     SOLIDS |-> r, brushes |-> MapBrushes(r)] :
                       i \in BrushInstances, f \in BrushFlags,
                       r \in SolidRegistries}
    /\ fn_ret = Pending
    /\ FnOthersIdle

\* The posIsSolid flag is evaluated for the instance.
BrushFlag ==
    /\ fn_call.fn = "flag_brush_at_loc"
    /\ fn_ret = Pending
    /\ fn_ret' = flag_brush_at_loc(fn_call.inst, fn_call.flag, fn_call.SOLIDS,
                                   fn_call.brushes)
    /\ UNCHANGED fn_call
    /\ FnOthersUnchanged

BrushNext == BrushFlag

SpecBrush == BrushInit /\ [][BrushNext]_vars

\* The evaluated call of the posIsSolid flag: the brush of the registry at
\* the computed position (<<>> if none), whether a normal was given, whether
\* it is the brush's, the classification, and the options.
BrushReturned == fn_call.fn = "flag_brush_at_loc" /\ fn_ret # Pending
BrushAt ==
    solids_get(fn_call.SOLIDS, brush_pos(fn_call.inst, fn_call.flag))
BrushNormGiven == "dir" \in DOMAIN fn_call.flag
BrushNormMatches ==
    BrushAt[1].normal = brush_norm(fn_call.inst, fn_call.flag)
BrushClass ==
    IF BrushAt = <<>> \/ (BrushNormGiven /\ ~BrushNormMatches) THEN "none"
    ELSE BrushAt[1].color
BrushWanted ==
    IF "type" \in DOMAIN fn_call.flag THEN casefold(fn_call.flag.type)
    ELSE "any"
BrushRemoveSet ==
    "RemoveBrush" \in DOMAIN fn_call.flag /\ fn_call.flag.RemoveBrush = "1"

\* C14 as stated: the flag is true exactly when the requested type is 'any'
\* and a brush is at the computed position, or the requested type equals the
\* classification.
BrushResultAnyFound ==
    BrushReturned =>
        fn_ret.value = (\/ BrushWanted = "any" /\ BrushAt # <<>>
                        \/ BrushWanted = BrushClass)

\* C14 amended: the flag is true exactly when the requested type is 'any'
\* and the classification is not 'none' (a brush is at the computed position
\* and, if a normal was given, it is the brush's normal), or the requested
\* type equals the classification.
BrushResultAnyClassified ==
    BrushReturned =>
        fn_ret.value = (\/ BrushWanted = "any" /\ BrushClass # "none"
                        \/ BrushWanted = BrushClass)

\* 'any' is asked for, with a normal, of an instance that is turned, and a
\* brush with that normal is found.
BrushResultWitness ==
    /\ BrushReturned
    /\ BrushWanted = "any"
    /\ BrushNormGiven
    /\ BrushAt # <<>>
    /\ BrushNormMatches
    /\ BrushAt[1].normal # <<0, 0, 1>>
    /\ fn_ret.value = TRUE

\* C15 as stated: when RemoveBrush is set and a brush is at the computed
\* position, whether or not a given normal matches, the brush is deleted from
\* the map; otherwise the map is unchanged.
BrushRemovedIfFound ==
    BrushReturned =>
        fn_ret.brushes =
            IF BrushRemoveSet /\ BrushAt # <<>>
            THEN fn_call.brushes \ {BrushAt[1].solid}
            ELSE fn_call.brushes

\* C15 amended: when RemoveBrush is set, a brush is at the computed position
\* and either no normal was given or the given normal is the brush's, that
\* brush and no other is deleted from the map; otherwise (RemoveBrush unset,
\* no brush at the position, or a given normal that differs) the map is
\* unchanged.
BrushRemovedIfClassified ==
    BrushReturned =>
        fn_ret.brushes =
            IF BrushRemoveSet /\ BrushAt # <<>>
               /\ (BrushNormGiven => BrushNormMatches)
            THEN fn_call.brushes \ {BrushAt[1].solid}
            ELSE fn_call.brushes

\* RemoveBrush is set, a normal is given and is the brush's, and the brush is
\* gone from the map.
BrushRemovedWitness ==
    /\ BrushReturned
    /\ BrushRemoveSet
    /\ BrushNormGiven
    /\ BrushAt # <<>>
    /\ BrushNormMatches
    /\ BrushAt[1].solid \in fn_call.brushes
    /\ BrushAt[1].solid \notin fn_ret.brushes
    /\ fn_ret.brushes # {}

(***************************************************************************)
(* conditions/positioning.py: the PosIsGoo flag                            *)
(***************************************************************************)
\* `v * k` and `v *= k` for a number k.
Vec_mul(v, k) == <<v[1] * k, v[2] * k, v[3] * k>>

\* A floor division that rounds towards zero.
Vec_floordiv_truncating(v, k) ==
    [axis \in 1..3 |->
        IF v[axis] >= 0 THEN v[axis] \div k ELSE -((-v[axis]) \div k)]

\* `v // k` for a positive number k: each axis is floored, towards negative
\* infinity.
Vec_floordiv(v, k) == [axis \in 1..3 |-> v[axis] \div k]

\* flag_goo_at_loc(inst, flag) with the registry GOO_LOCS: the value, and
\* the cell that was looked up.
flag_goo_at_loc(inst_, flag, goo_locs) ==
    LET turned == Vec_rotate_by_str(Vec_from_str(flag.value),
                                    Get(inst_, "angles", <<"0", "0", "0">>))
        world == Vec_iadd_vec(Vec_mul(turned, 128),
                              Vec_from_str(inst_.origin))
        pos == Vec_iadd(Vec_mul(Vec_floordiv(world, 128), 128), 64)
    IN [raised |-> "none", value |-> pos \in goo_locs, cell |-> pos]

\* The instances: quarter turns of pitch and yaw, and an origin on or off
\* the grid, on either side of zero.
GooInstances ==
    {[angles |-> <<TurnText(p), TurnText(y), "0">>, origin |-> <<x, "0", z>>] :
        p, y \in 0..MaxTurns, x \in {"-192", "-64", "-1", "0", "100"},
        z \in {"0", "64"}}
    \cup {[origin |-> <<"-1", "0", "0">>]}
GooOffsets ==
    {<<"0", "0", "0">>, <<"1", "0", "0">>, <<"-1", "0", "2">>, <<"here">>}

\* The registries: up to MaxGoo cells, each given by its middle.
GooCells == {<<64, 64, 64>>, <<-64, 64, 64>>, <<-192, 64, 64>>,
             <<192, 64, 64>>, <<-64, 192, 64>>}
GooRegistries == {g \in SUBSET GooCells : Cardinality(g) <= MaxGoo}

GooInit ==
    /\ fn_call \in {[fn |-> "flag_goo_at_loc", inst |-> i,
                     flag |-> [value |-> o], GOO_LOCS |-> g] :
                       i \in GooInstances, o \in GooOffsets,
                       g \in GooRegistries}
    /\ fn_ret = Pending
    /\ FnOthersIdle

\* The PosIsGoo flag is evaluated for the instance.
GooFlag ==
    /\ fn_call.fn = "flag_goo_at_loc"
    /\ fn_ret = Pending
    /\ fn_ret' = flag_goo_at_loc(fn_call.inst, fn_call.flag, fn_call.GOO_LOCS)
    /\ UNCHANGED fn_call
    /\ FnOthersUnchanged

GooNext == GooFlag

SpecGoo == GooInit /\ [][GooNext]_vars

\* p = rotate(offset, angle) * 128 + origin of the evaluated call.
GooReturned == fn_call.fn = "flag_goo_at_loc" /\ fn_ret # Pending
GooPoint ==
    LET r == Vec_rotate_by_str(Vec_from_str(fn_call.flag.value),
                               Get(fn_call.inst, "angles", <<"0", "0", "0">>))
        o == Vec_from_str(fn_call.inst.origin)
    IN <<r[1] * 128 + o[1], r[2] * 128 + o[2], r[3] * 128 + o[3]>>

\* C18: the cell looked up is floor(p/128)*128 + 64 on each axis, the floor
\* being towards negative infinity: it is the middle of a grid cell (64 more
\* than a multiple of 128) and p lies in that cell, at most 64 below the
\* middle and less than 64 above it; and the flag is true exactly when the
\* cell is in the registry.
GooCellSnapped ==
    GooReturned =>
        /\ \A axis \in 1..3 :
              /\ (fn_ret.cell[axis] - 64) % 128 = 0
              /\ fn_ret.cell[axis] - 64 <= GooPoint[axis]
              /\ GooPoint[axis] < fn_ret.cell[axis] + 64
        /\ fn_ret.value = (fn_ret.cell \in fn_call.GOO_LOCS)

\* An instance at a negative origin off the grid, turned so that the offset
\* along x points along y, whose point is snapped down to a cell in the
\* registry.
GooCellWitness ==
    /\ GooReturned
    /\ GooPoint[1] < 0
    /\ GooPoint[1] % 128 # 0
    /\ fn_call.flag.value = <<"1", "0", "0">>
    /\ fn_ret.cell = <<-64, 192, 64>>
    /\ fn_ret.value = TRUE

(***************************************************************************)
(* utils.parse_str                                                         *)
(***************************************************************************)
\* The texts of the model, as the tokens split(' ') gives (never none: the
\* empty text is one empty token; a leading, trailing or double space makes
\* an empty token).
ParseTokens == {"", "1", "-64", "(1", "2)", "(", "x"}
ParseTexts == SeqsUpTo(ParseTokens, MaxTokens) \ {<<>>}

ParseInit ==
    /\ fn_call \in {[fn |-> "parse_str", val |-> v, defaults |-> d] :
                       v \in ParseTexts, d \in {<<0, 0, 0>>, <<0, 0, 1>>}}
    /\ fn_ret = Pending
    /\ FnOthersIdle

\* parse_str(val, x, y, z) is called (by Vec.from_str or directly).
ParseStr ==
    /\ fn_call.fn = "parse_str"
    /\ fn_ret = Pending
    /\ fn_ret' = IF parse_str_raises(fn_call.val)
                 THEN [raised |-> "IndexError"]
                 ELSE [raised |-> "none",
                       value |-> parse_str(fn_call.val, fn_call.defaults[1],
                                           fn_call.defaults[2],
                                           fn_call.defaults[3])]
    /\ UNCHANGED fn_call
    /\ FnOthersUnchanged

ParseNext == ParseStr

SpecParse == ParseInit /\ [][ParseNext]_vars

\* A text is three space-separated numbers with at most one bracket stripped
\* from the first and the last token.
ParseWellFormed(val) ==
    /\ Len(val) = 3
    /\ val[1] \in {"1", "-64", "(1"}
    /\ val[2] \in {"1", "-64"}
    /\ val[3] \in {"1", "-64", "2)"}

\* C19 as stated: for every text, parse_str returns without raising, and it
\* returns the defaults whenever the text is not well formed.
ParseNeverRaises ==
    (fn_call.fn = "parse_str" /\ fn_ret # Pending) =>
        /\ fn_ret.raised = "none"
        /\ ~ParseWellFormed(fn_call.val) => fn_ret.value = fn_call.defaults

(***************************************************************************)
(* utils.adjust_inside_screen                                              *)
(***************************************************************************)
\* The default bounds of adjust_inside_screen.
HorizBound == 14
VertBound == 45

\* One axis of adjust_inside_screen: the if / elif on a coordinate.
adjust_axis_lower_only(v, bound, max_v) ==
    IF v < bound THEN bound ELSE v
adjust_axis(v, bound, max_v) ==
    IF v < bound THEN bound
    ELSE IF v > max_v THEN max_v
    ELSE v

\* adjust_inside_screen(x, y, win, horiz_bound, vert_bound), with the module
\* switch DISABLE_ADJUST passed as disable.
adjust_inside_screen(x, y, win, horiz_bound, vert_bound, disable) ==
    IF disable THEN <<x, y>>
    ELSE LET max_x == win.screenwidth - win.width - horiz_bound
             max_y == win.screenheight - win.height - vert_bound
         IN <<adjust_axis(x, horiz_bound, max_x),
              adjust_axis(y, vert_bound, max_y)>>

\* The windows of the model: smaller than the screen, wider and taller than
\* it, and fitting it only without the bounds.
AdjustWindows ==
    {[screenwidth |-> 200, screenheight |-> 150, width |-> w, height |-> h] :
        w \in {40, 180, 250}, h \in {30, 100, 160}}
AdjustCoords == {-5, 14, 45, 60, 120, 200}

AdjustInit ==
    /\ fn_call \in {[fn |-> "adjust_inside_screen", x |-> x, y |-> y,
                     win |-> w, horiz_bound |-> HorizBound,
                     vert_bound |-> VertBound, DISABLE_ADJUST |-> d] :
                       x \in AdjustCoords, y \in AdjustCoords,
                       w \in AdjustWindows, d \in BOOLEAN}
    /\ fn_ret = Pending
    /\ FnOthersIdle

\* adjust_inside_screen(x, y, win) is called.
AdjustInsideScreen ==
    /\ fn_call.fn = "adjust_inside_screen"
    /\ fn_ret = Pending
    /\ fn_ret' = [raised |-> "none",
                  value |-> adjust_inside_screen(
                                fn_call.x, fn_call.y, fn_call.win,
                                fn_call.horiz_bound, fn_call.vert_bound,
                                fn_call.DISABLE_ADJUST)]
    /\ UNCHANGED fn_call
    /\ FnOthersUnchanged

AdjustNext == AdjustInsideScreen

SpecAdjust == AdjustInit /\ [][AdjustNext]_vars

AdjustReturned == fn_call.fn = "adjust_inside_screen" /\ fn_ret # Pending
AdjustMaxX ==
    fn_call.win.screenwidth - fn_call.win.width - fn_call.horiz_bound
AdjustMaxY ==
    fn_call.win.screenheight - fn_call.win.height - fn_call.vert_bound
AdjustUnchanged == fn_ret.value = <<fn_call.x, fn_call.y>>

\* C21 as stated: with the adjustment enabled the returned position is inside
\* the bounds on both axes for every window, also one larger than the screen;
\* with the switch set the position is returned unchanged.
AdjustAlwaysInside ==
    AdjustReturned =>
        IF fn_call.DISABLE_ADJUST THEN AdjustUnchanged
        ELSE /\ fn_call.horiz_bound <= fn_ret.value[1]
             /\ fn_ret.value[1] <= AdjustMaxX
             /\ fn_call.vert_bound <= fn_ret.value[2]
             /\ fn_ret.value[2] <= AdjustMaxY

\* C21 amended: with the adjustment enabled, each axis on which the window and
\* both bounds fit the screen (bound <= max) is inside the bounds; on an axis
\* where they do not fit the result is the lower bound when the request was
\* below it and otherwise the smaller of the request and the maximum; with
\* the switch set the position is returned unchanged.
AdjustInsideWhenFits ==
    AdjustReturned =>
        IF fn_call.DISABLE_ADJUST THEN AdjustUnchanged
        ELSE /\ IF fn_call.horiz_bound <= AdjustMaxX
                THEN /\ fn_call.horiz_bound <= fn_ret.value[1]
                     /\ fn_ret.value[1] <= AdjustMaxX
                ELSE fn_ret.value[1] =
                        IF fn_call.x < fn_call.horiz_bound
                        THEN fn_call.horiz_bound ELSE AdjustMaxX
             /\ IF fn_call.vert_bound <= AdjustMaxY
                THEN /\ fn_call.vert_bound <= fn_ret.value[2]
                     /\ fn_ret.value[2] <= AdjustMaxY
                ELSE fn_ret.value[2] =
                        IF fn_call.y < fn_call.vert_bound
                        THEN fn_call.vert_bound ELSE AdjustMaxY

\* A request right of and below the maximum of a window that fits was moved
\* back to the maximum on both axes.
AdjustWitness ==
    /\ AdjustReturned
    /\ ~fn_call.DISABLE_ADJUST
    /\ fn_call.win.width = 40 /\ fn_call.win.height = 30
    /\ fn_call.x = 200 /\ fn_call.y = 120
    /\ fn_ret.value = <<146, 75>>

(***************************************************************************)
(* utils.get_indent                                                        *)
(***************************************************************************)
\* The characters of a line in the model: space, tab, and two others.
IndentChars == {" ", "\t", "a", "{"}
IndentLines == SeqsUpTo(IndentChars, MaxLine)

\* The for loop of get_indent from character k on, with the list white so
\* far: a character other than space and tab returns the joined list; when
\* the line runs out the function ends without a return statement, which
\* yields None.
RECURSIVE get_indent_loop(_, _, _)
get_indent_loop(line, k, white) ==
    IF k > Len(line) THEN PyNone
    ELSE IF line[k] \in {" ", "\t"}
         THEN get_indent_loop(line, k + 1, Append(white, line[k]))
         ELSE PyStr(white)

get_indent(line) == get_indent_loop(line, 1, <<>>)

IndentInit ==
    /\ fn_call \in {[fn |-> "get_indent", line |-> l] : l \in IndentLines}
    /\ fn_ret = Pending
    /\ FnOthersIdle

\* get_indent(line) is called.
GetIndent ==
    /\ fn_call.fn = "get_indent"
    /\ fn_ret = Pending
    /\ fn_ret' = [raised |-> "none", value |-> get_indent(fn_call.line)]
    /\ UNCHANGED fn_call
    /\ FnOthersUnchanged

IndentNext == GetIndent

SpecIndent == IndentInit /\ [][IndentNext]_vars

\* The leading run of space and tab characters of a line.
RECURSIVE LeadingWhite(_)
LeadingWhite(line) ==
    IF line = <<>> \/ Head(line) \notin {" ", "\t"} THEN <<>>
    ELSE <<Head(line)>> \o LeadingWhite(Tail(line))

\* C22 as stated: for every line, also the empty line and a line of only
\* spaces and tabs, get_indent returns the text of the line's leading run of
\* space and tab characters.
IndentIsLeadingRun ==
    (fn_call.fn = "get_indent" /\ fn_ret # Pending) =>
        fn_ret.value = PyStr(LeadingWhite(fn_call.line))

(***************************************************************************)
(* utils.CONN_TYPES, utils.CONN_LOOKUP                                     *)
(***************************************************************************)
\* The rotation texts N, S, E, W of the table.
ConnN == <<"0", "90", "0">>
ConnS == <<"0", "270", "0">>
ConnE == <<"0", "0", "0">>
ConnW == <<"0", "180", "0">>

\* The items of the CONN_LOOKUP literal in source order: key (N, S, E, W),
\* type, rotation.
CONN_ITEMS_straight_east ==
    << <<<<1, 0, 0, 0>>, "side", ConnN>>,
       <<<<0, 1, 0, 0>>, "side", ConnS>>,
       <<<<0, 0, 1, 0>>, "side", ConnE>>,
       <<<<0, 0, 0, 1>>, "side", ConnW>>,
       <<<<1, 1, 0, 0>>, "straight", ConnE>>,
       <<<<0, 0, 1, 1>>, "straight", ConnE>>,
       <<<<0, 1, 0, 1>>, "corner", ConnN>>,
       <<<<1, 0, 1, 0>>, "corner", ConnS>>,
       <<<<1, 0, 0, 1>>, "corner", ConnE>>,
       <<<<0, 1, 1, 0>>, "corner", ConnW>>,
       <<<<0, 1, 1, 1>>, "triple", ConnN>>,
       <<<<1, 0, 1, 1>>, "triple", ConnS>>,
       <<<<1, 1, 0, 1>>, "triple", ConnE>>,
       <<<<1, 1, 1, 0>>, "triple", ConnW>>,
       <<<<1, 1, 1, 1>>, "all", ConnE>>,
       <<<<0, 0, 0, 0>>, "none", ConnE>> >>
CONN_ITEMS ==
    << <<<<1, 0, 0, 0>>, "side", ConnN>>,
       <<<<0, 1, 0, 0>>, "side", ConnS>>,
       <<<<0, 0, 1, 0>>, "side", ConnE>>,
       <<<<0, 0, 0, 1>>, "side", ConnW>>,
       <<<<1, 1, 0, 0>>, "straight", ConnS>>,
       <<<<0, 0, 1, 1>>, "straight", ConnE>>,
       <<<<0, 1, 0, 1>>, "corner", ConnN>>,
       <<<<1, 0, 1, 0>>, "corner", ConnS>>,
       <<<<1, 0, 0, 1>>, "corner", ConnE>>,
       <<<<0, 1, 1, 0>>, "corner", ConnW>>,
       <<<<0, 1, 1, 1>>, "triple", ConnN>>,
       <<<<1, 0, 1, 1>>, "triple", ConnS>>,
       <<<<1, 1, 0, 1>>, "triple", ConnE>>,
       <<<<1, 1, 1, 0>>, "triple", ConnW>>,
       <<<<1, 1, 1, 1>>, "all", ConnE>>,
       <<<<0, 0, 0, 0>>, "none", ConnE>> >>

\* The key a tuple of ints and bools is looked up as: True equals 1 and False
\* equals 0, with equal hashes.
conn_key(tup) ==
    [k \in 1..4 |-> IF tup[k].type = "bool"
                    THEN (IF tup[k].b THEN 1 ELSE 0)
                    ELSE tup[k].n]

\* CONN_LOOKUP[tup]: the last item of the literal with an equal key, and a
\* KeyError when there is none.
conn_matches(tup) ==
    {i \in 1..Len(CONN_ITEMS) : CONN_ITEMS[i][1] = conn_key(tup)}
CONN_LOOKUP(tup) ==
    LET hits == conn_matches(tup)
    IN IF hits = {} THEN [raised |-> "KeyError"]
       ELSE LET last == CHOOSE i \in hits : \A j \in hits : j <= i
            IN [raised |-> "none",
                value |-> <<CONN_ITEMS[last][2], CONN_ITEMS[last][3]>>]

\* The presence values a caller passes: the ints 0 and 1 and the booleans.
ConnFlags == {PyInt(0), PyInt(1), PyBool(FALSE), PyBool(TRUE)}

ConnInit ==
    /\ fn_call \in {[fn |-> "CONN_LOOKUP", key |-> <<n, s, e, w>>] :
                       n \in ConnFlags, s \in ConnFlags,
                       e \in ConnFlags, w \in ConnFlags}
    /\ fn_ret = Pending
    /\ FnOthersIdle

\* CONN_LOOKUP[key] is evaluated.
ConnLookup ==
    /\ fn_call.fn = "CONN_LOOKUP"
    /\ fn_ret = Pending
    /\ fn_ret' = CONN_LOOKUP(fn_call.key)
    /\ UNCHANGED fn_call
    /\ FnOthersUnchanged

ConnNext == ConnLookup

SpecConn == ConnInit /\ [][ConnNext]_vars

\* The claim's reading of the table: the canonical connection set of each
\* shape, the yaw of each direction, and a set of directions turned by a yaw.
ConnCanonical(shape) ==
    CASE shape = "side" -> {"E"}
      [] shape = "straight" -> {"E", "W"}
      [] shape = "corner" -> {"N", "W"}
      [] shape = "triple" -> {"N", "S", "W"}
      [] shape = "all" -> {"N", "S", "E", "W"}
      [] shape = "none" -> {}
ConnYaw(d) ==
    CASE d = "E" -> 0 [] d = "N" -> 90 [] d = "W" -> 180 [] d = "S" -> 270
ConnTurned(dirs, yaw) ==
    {d \in {"N", "S", "E", "W"} :
        \E c \in dirs : ConnYaw(d) = (ConnYaw(c) + yaw) % 360}
ConnPresent(tup) ==
    LET key == conn_key(tup)
    IN {d \in {"N", "S", "E", "W"} :
           \/ d = "N" /\ key[1] = 1
           \/ d = "S" /\ key[2] = 1
           \/ d = "E" /\ key[3] = 1
           \/ d = "W" /\ key[4] = 1}

\* C23: every one of the 16 presence tuples has an entry, and the canonical
\* connection set of the entry's shape turned by the yaw of the entry's
\* rotation is exactly the set of directions present in the key.
ConnTableRotates ==
    (fn_call.fn = "CONN_LOOKUP" /\ fn_ret # Pending) =>
        /\ fn_ret.raised = "none"
        /\ ConnTurned(ConnCanonical(fn_ret.value[1]),
                      Vec_from_str(fn_ret.value[2])[2])
             = ConnPresent(fn_call.key)

\* The tuple (True, False, True, 0), north and east present, was looked up
\* and gave the corner turned to yaw 270.
ConnTableWitness ==
    /\ fn_call.fn = "CONN_LOOKUP"
    /\ fn_call.key = <<PyBool(TRUE), PyBool(FALSE), PyBool(TRUE), PyInt(0)>>
    /\ fn_ret # Pending
    /\ fn_ret.raised = "none"
    /\ fn_ret.value = <<"corner", ConnS>>

(***************************************************************************)
(* voiceLine.add_choreo and the loop of voiceLine.add_quote, with the      *)
(* outputs of the entities.                                                *)
(***************************************************************************)
\* vmfLib.Output(output, target, input, param=..., only_once=...).
Out(output, target, inp, param, once) ==
    [output |-> output, target |-> target, input |-> inp, param |-> param,
     only_once |-> once]

\* The properties of a quote line: a leaf with a value, a block with
\* children, and the endcommand block with its target and input. An
\* endcommand's output carries the position of its property in the line
\* (src), and an entity the position of the property that made it (by) and
\* its number in a sequence of scenes (ind, 0 outside a sequence).
Block(name, children) == [name |-> name, children |-> children]
EndCommand(target, inp) ==
    [name |-> "endcommand", target |-> target, input |-> inp]
has_children(prop) == "children" \in DOMAIN prop

\* targetname.lstrip('@') for the names of the model.
lstrip_at(name) ==
    CASE name = "@choreo" -> "choreo"
      [] name = "@glados_line" -> "glados_line"
      [] OTHER -> name

\* add_choreo(c_line, targetname, loc, use_dings, is_first, is_last,
\* only_once): the scene entity with its outputs.
add_choreo(tname, use_dings, is_first, is_last, once, by, ind) ==
    LET dings ==
            IF use_dings
            THEN (IF is_first
                  THEN <<Out("OnUser1", "@ding_on", "Start", "", once),
                         Out("OnUser1", tname, "Start", "", once)>>
                  ELSE <<>>)
                 \o (IF is_last
                     THEN <<Out("OnCompletion", "@ding_off", "Start", "",
                                FALSE)>>
                     ELSE <<>>)
            ELSE IF is_first
                 THEN <<Out("OnUser1", tname, "Start", "", once)>>
                 ELSE <<>>
        kill == IF once
                THEN <<Out("OnCompletion", "!self", "Kill", "", FALSE)>>
                ELSE <<>>
    IN [classname |-> "logic_choreographed_scene", targetname |-> tname,
        outs |-> dings \o kill, by |-> by, ind |-> ind]

\* The else branch of a choreo property (lines 276-287): one scene, which
\* joins added_ents, takes a copy of every pending end command and clears
\* the list. st holds the entities, added_ents and end_commands.
choreo_single_keeps_pending(st, tname, use_dings, once, by) ==
    LET choreo == add_choreo(tname, use_dings, TRUE, TRUE, once, by, 0)
    IN [ents |-> Append(st.ents,
                        [choreo EXCEPT !.outs = choreo.outs \o st.ends]),
        added |-> Append(st.added, Len(st.ents) + 1),
        ends |-> st.ends]
choreo_single(st, tname, use_dings, once, by) ==
    LET choreo == add_choreo(tname, use_dings, TRUE, TRUE, once, by, 0)
    IN [ents |-> Append(st.ents,
                        [choreo EXCEPT !.outs = choreo.outs \o st.ends]),
        added |-> Append(st.added, Len(st.ents) + 1),
        ends |-> <<>>]

\* The loop over the children of a choreo block (lines 246-275) from child
\* ind on: each scene but the last starts the next one, the first joins
\* added_ents, the last takes the pending end commands and clears the list.
RECURSIVE choreo_block(_, _, _, _, _, _, _)
choreo_block(st, ind, len, tname, use_dings, once, by) ==
    IF ind > len THEN st
    ELSE LET secondary_name == lstrip_at(tname) \o "_"
             is_first == (ind = 1)
             is_last == (ind = len)
             name == IF is_first THEN tname
                     ELSE secondary_name \o ToString(ind)
             choreo == add_choreo(name, use_dings, is_first, is_last, once,
                                  by, ind)
             chain == IF ~is_last
                      THEN <<Out("OnCompletion",
                                 secondary_name \o ToString(ind + 1),
                                 "Start", "", FALSE)>>
                      ELSE <<>>
             ends == IF is_last THEN st.ends ELSE <<>>
         IN choreo_block(
                [ents |-> Append(st.ents,
                                 [choreo EXCEPT
                                     !.outs = choreo.outs \o chain \o ends]),
                 added |-> IF is_first
                           THEN Append(st.added, Len(st.ents) + 1)
                           ELSE st.added,
                 ends |-> IF is_last THEN <<>> ELSE st.ends],
                ind + 1, len, tname, use_dings, once, by)

\* The entity of a file, snd or bullseye property.
quote_ent(classname, tname, outs, by) ==
    [classname |-> classname, targetname |-> tname, outs |-> outs,
     by |-> by, ind |-> 0]

\* Lines 363-370: every entity of added_ents gets the cc_emit output.
add_cc_emit_to_all(ents, added, name) ==
    [e \in 1..Len(ents) |->
        [ents[e] EXCEPT !.outs =
            Append(ents[e].outs,
                   Out("OnUser1", "@command", "Command",
                       "cc_emit " \o name, FALSE))]]
add_cc_emit(ents, added, name) ==
    [e \in 1..Len(ents) |->
        IF e \in Range(added)
        THEN [ents[e] EXCEPT !.outs =
                 Append(ents[e].outs,
                        Out("OnUser1", "@command", "Command",
                            "cc_emit " \o name, FALSE))]
        ELSE ents[e]]

\* The properties a line of the model is made of.
QuoteProps ==
    {Prop("file", "announcer.vmf"),
     Prop("choreo", "line.vcd"),
     Block("choreo", <<>>),
     Block("choreo", <<Prop("", "first.vcd"), Prop("", "second.vcd")>>),
     Prop("snd", "cave.wav"),
     Prop("bullseye", "cave_bullseye"),
     Prop("cc_emit", "caption"),
     EndCommand("@exit_door", "Open"),
     Prop("onlyonce", "1"),
     Prop("choreo_name", "@glados_line")}

\* add_quote(quote, targetname, quote_loc, use_dings) is entered.
AqInit ==
    /\ aq_pc = "loop"
    /\ aq_quote \in SeqsUpTo(QuoteProps, MaxProps)
    /\ aq_idx = 1
    /\ aq_use_dings \in BOOLEAN
    /\ aq_targetname = "@choreo"
    /\ aq_bullseyes \in {{}, {"cave_bullseye"}}
    /\ aq_ents = <<>>
    /\ only_once = FALSE
    /\ cc_emit_name = ""
    /\ added_ents = <<>>
    /\ end_commands = <<>>
    /\ AqOthersIdle

\* One pass of `for prop in quote` (lines 225-361).
AqProp ==
    /\ aq_pc = "loop"
    /\ aq_idx <= Len(aq_quote)
    /\ LET prop == aq_quote[aq_idx]
           name == prop.name
           st == [ents |-> aq_ents, added |-> added_ents,
                  ends |-> end_commands]
           new == CASE name = "file" ->
                         [ents |-> Append(aq_ents,
                                          quote_ent("func_instance", "",
                                                    <<>>, aq_idx)),
                          added |-> Append(added_ents, Len(aq_ents) + 1),
                          ends |-> end_commands]
                    [] name = "choreo" /\ has_children(prop) ->
                         choreo_block(st, 1, Len(prop.children),
                                      aq_targetname, aq_use_dings,
                                      only_once, aq_idx)
                    [] name = "choreo" /\ ~has_children(prop) ->
                         choreo_single(st, aq_targetname, aq_use_dings,
                                       only_once, aq_idx)
                    [] name = "snd" ->
                         [ents |-> Append(aq_ents,
                                     quote_ent("ambient_generic",
                                               aq_targetname,
                                               <<Out("OnUser1",
                                                     aq_targetname,
                                                     "PlaySound", "",
                                                     only_once)>>,
                                               aq_idx)),
                          added |-> Append(added_ents, Len(aq_ents) + 1),
                          ends |-> end_commands]
                    [] name = "bullseye" /\ prop.value \notin aq_bullseyes ->
                         [ents |-> Append(aq_ents,
                                          quote_ent("npc_bullseye",
                                                    prop.value, <<>>,
                                                    aq_idx)),
                          added |-> added_ents,
                          ends |-> end_commands]
                    [] name = "endcommand" ->
                         [ents |-> aq_ents,
                          added |-> added_ents,
                          ends |-> Append(end_commands,
                                     [output |-> "OnCompletion",
                                      target |-> prop.target,
                                      input |-> prop.input,
                                      param |-> "",
                                      only_once |-> FALSE,
                                      src |-> aq_idx])]
                    [] OTHER -> st
       IN /\ aq_ents' = new.ents
          /\ added_ents' = new.added
          /\ end_commands' = new.ends
          /\ aq_bullseyes' = IF name = "bullseye"
                             THEN aq_bullseyes \cup {prop.value}
                             ELSE aq_bullseyes
          /\ cc_emit_name' = IF name = "cc_emit" THEN prop.value
                             ELSE cc_emit_name
          /\ aq_targetname' = IF name = "choreo_name" THEN prop.value
                              ELSE aq_targetname
          /\ only_once' = IF name = "onlyonce"
                          THEN conv_bool(PyStr(prop.value), FALSE)
                          ELSE only_once
    /\ aq_idx' = aq_idx + 1
    /\ UNCHANGED <<aq_pc, aq_quote, aq_use_dings>>
    /\ AqOthersUnchanged

\* The end of add_quote (lines 363-370): the cc_emit outputs.
AqEmit ==
    /\ aq_pc = "loop"
    /\ aq_idx > Len(aq_quote)
    /\ aq_ents' = IF cc_emit_name # ""
                  THEN add_cc_emit(aq_ents, added_ents, cc_emit_name)
                  ELSE aq_ents
    /\ aq_pc' = "done"
    /\ UNCHANGED <<aq_quote, aq_idx, aq_use_dings, aq_targetname,
                   aq_bullseyes, only_once, cc_emit_name, added_ents,
                   end_commands>>
    /\ AqOthersUnchanged

AqNext == AqProp \/ AqEmit

SpecQuote == AqInit /\ [][AqNext]_vars

\* The properties the loop has been through, the choreo properties of the
\* line, those of them with a scene, and the scene of a choreo property that
\* comes last.
AqSeen == 1..(aq_idx - 1)
AqChoreos == {j \in 1..Len(aq_quote) : aq_quote[j].name = "choreo"}
AqChoreosWithScene ==
    {j \in AqChoreos :
        has_children(aq_quote[j]) => aq_quote[j].children # <<>>}
AqLastScene(j) ==
    {e \in 1..Len(aq_ents) :
        /\ aq_ents[e].by = j
        /\ aq_ents[e].classname = "logic_choreographed_scene"
        /\ aq_ents[e].ind = IF has_children(aq_quote[j])
                            THEN Len(aq_quote[j].children) ELSE 0}
\* Where the output of the endcommand at position i is attached: entity and
\* position among its outputs.
AqAttached(i) ==
    UNION {{<<e, k>> : k \in {n \in 1..Len(aq_ents[e].outs) :
                                /\ "src" \in DOMAIN aq_ents[e].outs[n]
                                /\ aq_ents[e].outs[n].src = i}} :
           e \in 1..Len(aq_ents)}
\* The end commands rule with `choreos` as the choreo properties that take
\* the pending end commands.
AqEndCommandsRule(choreos) ==
    /\ \A i \in AqSeen :
          aq_quote[i].name = "endcommand" =>
              LET later == {j \in choreos : j > i /\ j \in AqSeen}
              IN IF later = {} THEN AqAttached(i) = {}
                 ELSE LET j == CHOOSE n \in later : \A m \in later : n <= m
                      IN /\ Cardinality(AqAttached(i)) = 1
                         /\ \A a \in AqAttached(i) : a[1] \in AqLastScene(j)
    /\ \A j \in choreos : j = aq_idx - 1 => end_commands = <<>>

\* C24 as stated: each endcommand is attached exactly once, to the last (or
\* only) scene of the first choreo property after it and to no other entity;
\* the pending list is empty after each choreo property; an endcommand with
\* no later choreo property is attached to nothing.
QuoteEndCommandsNextChoreo == AqEndCommandsRule(AqChoreos)

\* C24 amended: as above with "choreo property" read as a choreo property
\* that has at least one scene; a choreo block without children neither
\* takes the pending end commands nor clears them.
QuoteEndCommandsNextScene == AqEndCommandsRule(AqChoreosWithScene)

\* An endcommand, then a sequence of two scenes, then a single scene: the
\* line is done and the second scene of the sequence has the end command.
QuoteEndCommandsWitness ==
    /\ aq_pc = "done"
    /\ Len(aq_quote) = 3
    /\ aq_quote[1].name = "endcommand"
    /\ aq_quote[2].name = "choreo" /\ has_children(aq_quote[2])
    /\ aq_quote[2].children # <<>>
    /\ aq_quote[3].name = "choreo" /\ ~has_children(aq_quote[3])
    /\ \E k \in 1..Len(aq_ents[2].outs) : <<2, k>> \in AqAttached(1)

\* The closed-caption output of the line, how many of them an entity has, and
\* the entities of the line that OnUser1 starts: each file instance, each
\* sound, each single scene and the first scene of each sequence.
AqCaption ==
    Out("OnUser1", "@command", "Command", "cc_emit " \o cc_emit_name, FALSE)
AqCaptions(e) ==
    Cardinality({k \in 1..Len(aq_ents[e].outs) :
                    aq_ents[e].outs[k] = AqCaption})
AqStartedByUser1(e) ==
    \/ aq_ents[e].classname \in {"func_instance", "ambient_generic"}
    \/ /\ aq_ents[e].classname = "logic_choreographed_scene"
       /\ aq_ents[e].ind \in {0, 1}

\* C25: when add_quote is done with a line that has a cc_emit property,
\* wherever that property stands, exactly the entities of the line that
\* OnUser1 starts have the closed-caption output, each exactly once, and no
\* other entity has it.
QuoteCaptionOnStarted ==
    (aq_pc = "done" /\ \E i \in 1..Len(aq_quote) : aq_quote[i].name = "cc_emit")
        => \A e \in 1..Len(aq_ents) :
              AqCaptions(e) = IF AqStartedByUser1(e) THEN 1 ELSE 0

\* A sequence of two scenes, then cc_emit, then a file instance: the first
\* scene and the instance have the output, the second scene does not.
QuoteCaptionWitness ==
    /\ aq_pc = "done"
    /\ Len(aq_quote) = 3
    /\ aq_quote[1].name = "choreo" /\ has_children(aq_quote[1])
    /\ aq_quote[2].name = "cc_emit"
    /\ aq_quote[3].name = "file"
    /\ Len(aq_ents) = 3
    /\ AqCaptions(1) = 1 /\ AqCaptions(2) = 0 /\ AqCaptions(3) = 1

(***************************************************************************)
(* conditions/positioning.py: the forceUpright result                      *)
(***************************************************************************)
\* math.degrees(math.atan2(y, x)) for a horizontal axis vector.
atan2_deg(y, x) ==
    CASE x = 1 /\ y = 0 -> 0
      [] x = 0 /\ y = 1 -> 90
      [] x = -1 /\ y = 0 -> 180
      [] x = 0 /\ y = -1 -> -90
      [] OTHER -> 0

\* '{}'.format(f) for a float f of whole value.
format_float(f) == ToString(f) \o ".0"

\* The yaw of lines 154-155: the angle of the normal, made non-negative.
upright_yaw_signed(normal) == atan2_deg(normal[2], normal[1])
upright_yaw(normal) == atan2_deg(normal[2], normal[1]) % 360

\* res_force_upright(inst, _): the instance afterwards.
res_force_upright(instance) ==
    LET normal == Vec_rotate_by_str(<<0, 0, 1>>, instance.angles)
    IN IF normal[3] # 0 THEN instance
       ELSE [instance EXCEPT
                !.angles = <<"0", format_float(upright_yaw(normal)), "0">>]

UprightInstances ==
    {[angles |-> a, origin |-> o] :
        a \in AngleTexts, o \in {<<"0", "0", "0">>, <<"64", "-128", "256">>}}

UprightInit ==
    /\ fn_call \in {[fn |-> "res_force_upright", inst |-> i] :
                       i \in UprightInstances}
    /\ fn_ret = Pending
    /\ FnOthersIdle

\* The forceUpright result is run on the instance.
UprightResult ==
    /\ fn_call.fn = "res_force_upright"
    /\ fn_ret = Pending
    /\ fn_ret' = [raised |-> "none", inst |-> res_force_upright(fn_call.inst)]
    /\ UNCHANGED fn_call
    /\ FnOthersUnchanged

UprightNext == UprightResult

SpecUpright == UprightInit /\ [][UprightNext]_vars

UprightReturned == fn_call.fn = "res_force_upright" /\ fn_ret # Pending
\* The world-up vector of the instance before the result ran.
UprightNormal == Vec_rotate_by_str(<<0, 0, 1>>, fn_call.inst.angles)

\* C26: the origin is never changed; the angle is unchanged when the world-up
\* vector has a non-zero Z; otherwise the new angle has pitch 0, roll 0 and a
\* yaw in [0, 360) that points along the vector's horizontal projection.
UprightAngle ==
    UprightReturned =>
        /\ fn_ret.inst.origin = fn_call.inst.origin
        /\ IF UprightNormal[3] # 0
           THEN fn_ret.inst.angles = fn_call.inst.angles
           ELSE LET ang == fn_ret.inst.angles
                    yaw == float(ang[2])
                IN /\ Len(ang) = 3 /\ ang[2] \in NumText
                   /\ ang[1] = "0" /\ ang[3] = "0"
                   /\ 0 <= yaw /\ yaw < 360
                   /\ <<cos_deg(yaw), sin_deg(yaw)>>
                        = <<UprightNormal[1], UprightNormal[2]>>

\* An instance pitched a quarter turn and yawed three, whose world-up vector
\* points along -y, was turned to the yaw 270.
UprightWitness ==
    /\ UprightReturned
    /\ fn_call.inst.angles = <<"90", "270", "0">>
    /\ UprightNormal = <<0, -1, 0>>
    /\ fn_ret.inst.angles = <<"0", "270.0", "0">>

(***************************************************************************)
(* conditions/resizableTrigger.py: the result on a well-formed map         *)
(***************************************************************************)
\* A well-formed map: every marker is the owner of a link (its outputs go to
\* exactly one other marker, which has a connection count other than '0' and
\* no output to a marker), the target of exactly one owner, or isolated (no
\* link to or from it and a connection count of '0').
RtNames == {rt_list[k].targetname : k \in 1..Len(rt_list)}
RtLinks(m) == output_targets(m) \cap (RtNames \ {m.targetname})
RtLinkedTo(m) == {o \in Range(rt_list) : m.targetname \in RtLinks(o)}
RtIsOwner(m) ==
    /\ Cardinality(RtLinks(m)) = 1
    /\ \A t \in RtLinks(m) :
          /\ Marker(t).connectioncount # "0"
          /\ RtLinks(Marker(t)) = {}
RtIsTarget(m) ==
    /\ RtLinks(m) = {}
    /\ Cardinality(RtLinkedTo(m)) = 1
    /\ \A o \in RtLinkedTo(m) : RtIsOwner(o)
RtIsIsolated(m) ==
    /\ RtLinks(m) = {}
    /\ RtLinkedTo(m) = {}
    /\ m.connectioncount = "0"
RtOwners == {m \in Range(rt_list) : RtIsOwner(m)}
RtIsolated == {m \in Range(rt_list) : RtIsIsolated(m)}
RtWellFormed ==
    /\ rt_list # <<>>
    /\ \A m \in Range(rt_list) :
          RtIsOwner(m) \/ RtIsTarget(m) \/ RtIsIsolated(m)

\* The triggers a well-formed map is to get, as (name, partner) pairs.
RtExpectedTrigs ==
    UNION {{<<m.targetname, t>> : t \in RtLinks(m)} : m \in RtOwners}
    \cup {<<m.targetname, m.targetname>> : m \in RtIsolated}

\* C27: on a well-formed map, in whatever order the markers stand in the
\* map, the result does not fail, every trigger is named after the marker
\* that owns the link, and when the result has returned there is exactly one
\* trigger per linked pair and one per isolated marker and every marker
\* instance has been removed from the map, once.
RtWellFormedPairs ==
    ((rt_pc \in {"raised", "done"} \/ trig_ent # <<>>) /\ RtWellFormed) =>
        /\ rt_pc # "raised"
        /\ trig_ent # <<>> =>
              \E m \in RtOwners \cup RtIsolated :
                  trig_ent[1].targetname = m.targetname
        /\ rt_pc = "done" =>
              /\ Range(rt_trigs) = RtExpectedTrigs
              /\ Len(rt_trigs) = Cardinality(RtExpectedTrigs)
              /\ \A n \in RtNames : rt_removed[n] = 1

\* A map of the target mark_a followed by its owner mark_b: the result
\* returned with the one trigger mark_b and both instances removed.
RtWellFormedWitness ==
    /\ RtWellFormed
    /\ rt_pc = "done"
    /\ Len(rt_list) = 2
    /\ RtLinks(rt_list[1]) = {}
    /\ RtLinks(rt_list[2]) = {"mark_a"}
    /\ rt_trigs = <<<<"mark_b", "mark_a">>>>
    /\ rt_removed["mark_a"] = 1 /\ rt_removed["mark_b"] = 1

(***************************************************************************)
(* utils.AtomicWriter: the temporary files of one writer                   *)
(***************************************************************************)
\* The temporary files in the directory.
AwTempFiles == {n \in TempNames : aw_dir[n].exists}

\* C28: after every enter and exit of one writer, entering again while a
\* scope is open included, at most one temporary file exists; an enter leaves
\* only the file it has just created, empty, the earlier one being deleted;
\* and no temporary file exists once every scope has exited.
AwOneTempFile ==
    [][/\ Cardinality(AwTempFiles') <= 1
       /\ aw_scopes' = <<>> => AwTempFiles' = {}
       /\ aw_enters' > aw_enters =>
             /\ AwTempFiles' = {aw_temp'}
             /\ aw_dir'[aw_temp'] = File(<<>>)]_vars

\* A scope that had written to its temporary file was entered again: the
\* outer scope is marked, and the one temporary file is the new, empty one.
AwOneTempWitness ==
    /\ Len(aw_scopes) = 2
    /\ aw_scopes[1].reentered
    /\ aw_scopes[1].wrote # <<>>
    /\ aw_scopes[2].wrote = <<>>
    /\ AwTempFiles = {aw_temp}
    /\ aw_dir[aw_temp] = File(<<>>)

(***************************************************************************)
(* utils.Vec: the in-place addition and subtraction                        *)
(***************************************************************************)
\* A tuple and a Vec as the right operand.
PyTuple(elts) == [type |-> "tuple", items |-> elts]
PyVec(v) == [type |-> "Vec", v |-> v]

\* a {op} b for func "add" and "sub".
vec_op(func, a, b) == IF func = "add" THEN a + b ELSE a - b

\* Vec.__iadd__ / Vec.__isub__ (the template with func and op filled in):
\* what is raised and the vector afterwards. With a Vec each axis takes the
\* other's axis. With a tuple the axes are assigned one after the other from
\* other[0], other[1], other[2], and an index past the end of the tuple
\* raises IndexError with the earlier axes already assigned. With anything
\* else each axis takes the operand; a TypeError (an operand that is not a
\* number) restores the three axes and raises TypeError.
Vec_inplace(func, self_, other_) ==
    CASE other_.type = "Vec" ->
           [raised |-> "none",
            self |-> <<vec_op(func, self_[1], other_.v[1]),
                       vec_op(func, self_[2], other_.v[2]),
                       vec_op(func, self_[3], other_.v[3])>>]
      [] other_.type = "tuple" ->
           LET n == Len(other_.items)
           IN [raised |-> IF n < 3 THEN "IndexError" ELSE "none",
               self |-> [k \in 1..3 |->
                            IF k <= n
                            THEN vec_op(func, self_[k], other_.items[k])
                            ELSE self_[k]]]
      [] other_.type = "int" ->
           [raised |-> "none",
            self |-> <<vec_op(func, self_[1], other_.n),
                       vec_op(func, self_[2], other_.n),
                       vec_op(func, self_[3], other_.n)>>]
      [] OTHER ->
           [raised |-> "TypeError", self |-> self_]

\* The right operands of the model: vectors, tuples of up to MaxItems
\* numbers, numbers, a text and None.
InplaceOperands ==
    {PyVec(<<1, 0, -64>>), PyVec(<<0, 0, 0>>), PyInt(0), PyInt(64),
     PyStr("64"), PyNone}
    \cup {PyTuple(t) : t \in SeqsUpTo({1, -64}, MaxItems)}

InplaceInit ==
    /\ fn_call \in {[fn |-> "Vec_inplace", func |-> f, self |-> v,
                     other |-> o] :
                       f \in {"add", "sub"},
                       v \in {<<0, 0, 0>>, <<1, 2, 3>>, <<64, -128, 0>>},
                       o \in InplaceOperands}
    /\ fn_ret = Pending
    /\ FnOthersIdle

\* `v += other` or `v -= other` is run.
VecInplace ==
    /\ fn_call.fn = "Vec_inplace"
    /\ fn_ret = Pending
    /\ fn_ret' = Vec_inplace(fn_call.func, fn_call.self, fn_call.other)
    /\ UNCHANGED fn_call
    /\ FnOthersUnchanged

InplaceNext == VecInplace

SpecInplace == InplaceInit /\ [][InplaceNext]_vars

\* C29 as stated: whenever v += other or v -= other raises, for an
\* unsupported scalar or for a tuple of fewer than three items, the three
\* components of v are what they were before.
InplaceFailureRestores ==
    (fn_call.fn = "Vec_inplace" /\ fn_ret # Pending
       /\ fn_ret.raised # "none")
        => fn_ret.self = fn_call.self

(***************************************************************************)
(* utils.fit: the end of the selection loop                                *)
(***************************************************************************)
\* The interpreter runs the call on: a step that can be taken is taken.
SpecFitFair == SpecFit /\ WF_vars(FitNext)

\* C30: for every target and every non-empty list of positive part sizes in
\* any order, every iteration of the selection loop finds an item and makes
\* the remaining distance strictly smaller, the loop has run at most
\* int(dist) iterations (one item is sent per iteration), it ends with a
\* remainder smaller than the last element of the list, and the call ends.
FitTerminates ==
    /\ [][/\ (fit_pc = "loop" /\ fit_pc' = "loop") =>
                /\ dist' < dist
                /\ Len(items') = Len(items) + 1
          /\ fit_pc' = "loop" =>
                /\ Len(items') <= int(arg_dist')
                /\ dist' >= 0
                /\ dist' >= smallest' => FirstFit(obj', dist') # 0
          /\ (fit_pc = "loop" /\ fit_pc' # "loop") =>
                dist < obj[Len(obj)]]_vars
    /\ <>(fit_pc \in {"done", "raised"})

\* A call with a list that is neither ascending nor descending has gone
\* through two or more iterations and ended with a remainder.
FitTerminatesWitness ==
    /\ fit_pc = "done"
    /\ ~IsAscending(obj) /\ ~IsDescending(obj)
    /\ dist > 0
    /\ Len(fit_ret) >= 3

====
